---- MODULE Spec2Model ----
(***************************************************************************)
(* Rental Affordability Checker: the evaluation engine of src/app.py (the  *)
(* current snapshot, with session state and Google Sheets logging) and of  *)
(* src/unnamed/part_000 (the older snapshot "app (9).py", which recomputes  *)
(* on every script rerun).                                                  *)
(*                                                                         *)
(* Number representation.  The programs compute in IEEE doubles.  In the   *)
(* model                                                                   *)
(*   - a coefficient is its decimal in thousandths (MILLI), an activation  *)
(*     a whole number;                                                     *)
(*   - a product, the score z and the rent threshold are doubles, each the *)
(*     record of its decimal part in thousandths and of the rounding the   *)
(*     binary arithmetic has added (see Dbl and Round): the model rounds   *)
(*     where the program rounds, so sums and products have the bits they   *)
(*     have in the program;                                                *)
(*   - exp values are binary fractions of 30 bits;                         *)
(*   - p, rent_share and the gauge values are in ten-thousandths (PSCALE), *)
(*     rounded down, so that p >= 0.05 and p >= 0.5 are decided as in the  *)
(*     program;                                                            *)
(*   - the rent ratio is in hundredths (PCT), income and rent in whole RM. *)
(* The non-finite doubles are the values INF, -INF and NAN, which lie      *)
(* outside the range of every finite value the model computes.             *)
(***************************************************************************)
EXTENDS Integers, Sequences, FiniteSets, TLC

VARIABLES
    prog,           \* "app": src/app.py, "old": src/unnamed/part_000
    sel,            \* selectbox values: field -> selected label
    age,            \* number_input "Umur (Age)" (old snapshot only; 0 in app.py)
    income,         \* number_input income, RM
    rent,           \* number_input rent, RM
    ratio,          \* number_input ratio, hundredths
    save_to_sheet,  \* toggle "Save submission to spreadsheet" (app.py)
    dark_mode,      \* toggle dark mode (app.py)
    result,         \* app.py: st.session_state["result"]; old: what compute_all returned
    inputs,         \* the feature vector built by this script run (None if none was)
    df,             \* the breakdown table built by this script run (None if none was)
    sheet_ok,       \* environment: gspread installed and the secret configured
    ws,             \* the worksheet: a sequence of rows
    notice,         \* what the run block reported about logging
    edits,          \* widget changes of the session counted against MaxEdits
    runs,           \* Run clicks so far in the session
    now,            \* the second datetime.now() last showed (0: not read yet)
    calls           \* the append_to_sheet call of each session that writes to the worksheet

vars == << prog, sel, age, income, rent, ratio, save_to_sheet, dark_mode,
           result, inputs, df, sheet_ok, ws, notice, edits, runs, now, calls >>

(***************************************************************************)
(* Bounds of the model.                                                    *)
(***************************************************************************)
MaxEdits == 1
MaxRuns == 2
\* Calls of append_to_sheet of the sessions of SpecSheet together.
MaxCalls == 3

(***************************************************************************)
(* Fixed-point scales.                                                     *)
(***************************************************************************)
MILLI == 1000
PSCALE == 10000
PCT == 100

\* Python's None, and a present value; kept as sequences so that TLC can
\* compare the two.
None == << >>
Some(x) == << x >>

(***************************************************************************)
(* Python dict operations.                                                 *)
(***************************************************************************)
\* d[k] = v: overwrites the entry, or adds the key when it is missing.
Put(d, k, v) ==
    (k :> v) @@ d

\* d.get(k, default)
Get(d, k, default) ==
    IF k \in DOMAIN d THEN d[k] ELSE default

\* list.index(x): zero-based position of the first occurrence.
IndexOf(seq, x) ==
    (CHOOSE i \in 1..Len(seq) : seq[i] = x /\ \A j \in 1..(i - 1) : seq[j] # x) - 1

\* f"{base}({k})"
Key(base, k) ==
    base \o "(" \o ToString(k) \o ")"

\* clamp(x, lo, hi) = max(lo, min(hi, x))
clamp(x, lo, hi) ==
    LET m == IF hi < x THEN hi ELSE x
    IN  IF lo > m THEN lo ELSE m


(***************************************************************************)
(* src/app.py: coefficient table and option lists.                         *)
(***************************************************************************)
COEF ==
    << <<"Tahap Pendidikan=Undergraduate(1)", -537>>,
       <<"Pekerjaan=Pekerja Kerajaan(1)", 803>>,
       <<"Pekerjaan=Pekerja Swasta(1)", 912>>,
       <<"Jenis Penyewaan=Bilik(1)", 1121>>,
       <<"Jenis rumah sewa=Kondominium(1)", -1007>>,
       <<"Jenis rumah sewa=Pangsapuri(1)", -604>>,
       <<"Jenis rumah sewa=Rumah 1 unit(1)", -711>>,
       <<"Jenis rumah sewa=Rumah Teres(1)", 526>>,
       <<"Jenis kelengkapan perabot=Berperabot separa(1)", -370>>,
       <<"deposit_2_1(1)", 556>>,
       <<"Berapa lama anda telah menyewa rumah=3-5 tahun(1)", 413>>,
       <<"Berapa lama anda telah menyewa rumah=6+ tahun(1)", -584>>,
       <<"Constant", 310>> >>

OPTIONS ==
    [f \in {"Jantina", "Warganegara", "Bangsa", "Agama", "Status Perkahwinan", "Tahap Pendidikan", "Pekerjaan", "Bilangan Isi Rumah", "Bilangan Tanggungan", "Jenis Penyewaan", "Jenis Rumah Sewa", "Jenis Kelengkapan Perabot", "Deposit", "Tempoh Menyewa", "Skim"} |->
       CASE f = "Jantina" -> << "Lelaki", "Perempuan" >>
         [] f = "Warganegara" -> << "Malaysian", "Non-Malaysian" >>
         [] f = "Bangsa" -> << "Bumiputera", "Cina", "India", "Lain-lain" >>
         [] f = "Agama" -> << "Islam", "Buddha", "Hindu", "Lain-lain" >>
         [] f = "Status Perkahwinan" -> << "Single", "Bercerai", "Berkahwin" >>
         [] f = "Tahap Pendidikan" -> << "SPM dan ke bawah", "Undergraduate", "Postgraduate" >>
         [] f = "Pekerjaan" -> << "Tidak bekerja", "Bekerja sendiri", "Lain-lain", "Pekerja Kerajaan", "Pekerja Swasta", "Pesara" >>
         [] f = "Bilangan Isi Rumah" -> << "Kurang dari 2 orang", "3 - 4 orang", "Lebih 5 orang" >>
         [] f = "Bilangan Tanggungan" -> << "Kurang dari 2 orang", "3 - 4 orang", "Lebih 5 orang" >>
         [] f = "Jenis Penyewaan" -> << "Rumah", "Bilik" >>
         [] f = "Jenis Rumah Sewa" -> << "Flat", "Condominium", "Lain-lain", "Pangsapuri", "Rumah 1 unit", "Rumah Teres" >>
         [] f = "Jenis Kelengkapan Perabot" -> << "Tiada perabot", "Perabot penuh", "Perabot separa" >>
         [] f = "Deposit" -> << "Tiada deposit", "1 + 1", "2 + 1", "3 + 1" >>
         [] f = "Tempoh Menyewa" -> << "Kurang 2 tahun", "3 - 5 tahun", "Lebih 6 tahun" >>
         [] f = "Skim" -> << "Ya", "Tidak" >>]


SHEET_COLS ==
    << "timestamp", "jantina", "warganegara", "bangsa", "agama", "status_perkahwinan", "tahap_pendidikan", "pekerjaan", "bil_isi_rumah", "bil_tanggungan", "jenis_penyewaan", "jenis_rumah_sewa", "jenis_perabot", "deposit", "tempoh_menyewa", "skim", "income_rm", "rent_rm", "ratio_threshold", "z", "p", "condition_a_ok", "condition_b_ok", "overall_ok" >>

\* COEF.keys()
Keys(C) ==
    {C[i][1] : i \in 1..Len(C)}

\* {k: 0.0 for k in COEF.keys()}
ZeroDict(C) ==
    [k \in Keys(C) |-> 0] @@ << >>

P_THRESHOLD == 500

(***************************************************************************)
(* Floating-point values.  A double is the record [m, lo] with the value   *)
(* m / MILLI + lo / (125 * 2^60): m is the decimal the program writes or   *)
(* the exact sum or product of such decimals, lo is what binary rounding   *)
(* has added to it.  float("inf"), float("-inf") and float("nan") have m   *)
(* = INF, -INF and NAN.  A comparison with nan is False, arithmetic on nan *)
(* gives nan.                                                              *)
(***************************************************************************)
INF == 1000000000
NAN == 2000000000

Dbl(m, lo) ==
    [m |-> m, lo |-> lo]

\* math.isfinite, of an activation or of the m of a double
IsFinite(x) ==
    x \notin {INF, -INF, NAN}

\* |x|
Abs(x) ==
    IF x >= 0 THEN x ELSE -x

\* -x
fneg(x) ==
    IF x.m = NAN THEN x ELSE Dbl(-x.m, -x.lo)

\* a >= b
fge(a, b) ==
    /\ a.m # NAN /\ b.m # NAN
    /\ (a.m > b.m \/ (a.m = b.m /\ a.lo >= b.lo))

\* 2^n % 125, for n in 0..60.
Pow2Mod125(n) ==
    (((2^(n \div 2)) % 125) * ((2^(n - (n \div 2))) % 125)) % 125

\* s = e + 8 for 2^e <= |m / MILLI + lo / (125 * 2^60)| < 2^(e+1), or -1 when
\* the value is below 2^-8.
Binade(m, lo) ==
    LET Of(a) ==
            IF a < 125 THEN -1
            ELSE IF a < 125 * 4096
            THEN (IF a < 125 * 64
                  THEN (IF a < 125 * 8
                        THEN (IF a < 250 THEN 0 ELSE IF a < 500 THEN 1 ELSE 2)
                        ELSE IF a < 125 * 16 THEN 3 ELSE IF a < 125 * 32 THEN 4 ELSE 5)
                  ELSE (IF a < 125 * 512
                        THEN (IF a < 125 * 128 THEN 6 ELSE IF a < 125 * 256 THEN 7 ELSE 8)
                        ELSE IF a < 125 * 1024 THEN 9 ELSE IF a < 125 * 2048 THEN 10 ELSE 11))
            ELSE CHOOSE v \in 12..23 : 125 * 2^v <= a /\ a < 250 * 2^v
        Below(a, u) ==
            IF u >= 0 /\ a = 125 * 2^u /\ ((m > 0 /\ lo < 0) \/ (m < 0 /\ lo > 0))
            THEN u - 1 ELSE u
        At(a) == Below(a, Of(a))
    IN  At(32 * Abs(m))

\* The double nearest to m / MILLI + lo / (125 * 2^60) (round to nearest,
\* ties to even), for a value that is a multiple of 2^-60 or at least 2^-8
\* in magnitude.  With 2^e <= |value| < 2^(e+1) the doubles there are the
\* multiples of 2^(e-52): in the unit of lo, of M = 125 * 2^(e+8).
Round(m, lo) ==
    LET Nearest(M, rho, rho2) ==
            IF 2 * rho < M \/ (2 * rho = M /\ rho2 = rho)
            THEN Dbl(m, lo - rho)
            ELSE Dbl(m, lo - rho + M)
        OnGrid(s) ==
            IF s < 0 THEN Dbl(m, lo)
            ELSE Nearest(125 * 2^s,
                         ((2^s * (((m % 125) * Pow2Mod125(57 - s)) % 125)) + lo)
                            % (125 * 2^s),
                         ((2^(s + 1) * (((m % 125) * Pow2Mod125(56 - s)) % 125)) + lo)
                            % (250 * 2^s))
    IN  OnGrid(Binade(m, lo))

\* a + b
fadd(a, b) ==
    IF b.m = 0 /\ b.lo = 0 THEN a
    ELSE IF a.m = 0 /\ a.lo = 0 THEN b
    ELSE IF a.m = NAN \/ b.m = NAN \/ (a.m = INF /\ b.m = -INF) \/ (a.m = -INF /\ b.m = INF)
    THEN Dbl(NAN, 0)
    ELSE IF a.m \in {INF, -INF} THEN a
    ELSE IF b.m \in {INF, -INF} THEN b
    ELSE Round(a.m + b.m, a.lo + b.lo)

\* float(c) * x for the decimal c / MILLI and an activation x that is a
\* whole number, infinite or nan
fmul(c, x) ==
    IF x = NAN THEN Dbl(NAN, 0)
    ELSE IF x \in {INF, -INF}
         THEN (IF c = 0 THEN Dbl(NAN, 0) ELSE IF c > 0 THEN Dbl(x, 0) ELSE Dbl(-x, 0))
    ELSE IF x = 0 \/ c = 0 THEN Dbl(0, 0)
    ELSE LET Times(f) == IF x = 1 THEN f ELSE Round(f.m * x, f.lo * x)
         IN  Times(Round(c, 0))

(***************************************************************************)
(* MODEL MATH                                                              *)
(***************************************************************************)
H == 32768
ONE == 1073741824

\* The tables of math.exp: e^-i and e^i for i = 0..15, e^-(16 * 2^j) and
\* e^(16 * 2^j) for j = 0..5, e^-(d/10), e^-(d/100) and e^-(d/1000) for
\* d = 0..9.  An entry <<f, k>> is f * 2^(k - 30) with 2^29 <= f < 2^30, the
\* nearest such value.
ExpTable ==
    [negUnits |->
        << <<536870912, 1>>, <<790015084, -1>>, <<581260615, -2>>, <<855335322, -4>>,
           <<629320560, -5>>, <<926056384, -7>>, <<681354210, -8>>, <<1002624824, -10>>,
           <<737690120, -11>>, <<542762058, -12>>, <<798684011, -14>>, <<587638855, -15>>,
           <<864721015, -17>>, <<636226167, -18>>, <<936218107, -20>>, <<688830788, -21>> >>,
     negPowers |->
        << <<1013626742, -23>>, <<956877295, -46>>, <<852732134, -92>>,
           <<677213159, -184>>, <<854241965, -369>>, <<679613403, -738>> >>,
     posUnits |->
        << <<536870912, 1>>, <<729683222, 2>>, <<991742322, 3>>, <<673958783, 5>>,
           <<916004956, 6>>, <<622489907, 8>>, <<846051501, 9>>, <<574951605, 11>>,
           <<781440251, 12>>, <<1062087417, 13>>, <<721763231, 15>>, <<980977938, 16>>,
           <<666643626, 18>>, <<906062627, 19>>, <<615733393, 21>>, <<836868447, 22>> >>,
     posPowers |->
        << <<568711073, 24>>, <<602439577, 47>>, <<676016218, 93>>,
           <<851224972, 185>>, <<674821392, 370>>, <<848218633, 739>> >>,
     tenths |->
        << <<536870912, 1>>, <<971561780, 0>>, <<879105452, 0>>, <<795447508, 0>>,
           <<719750669, 0>>, <<651257337, 0>>, <<589282007, 0>>, <<1066408820, -1>>,
           <<964926603, -1>>, <<873101696, -1>> >>,
     hundredths |->
        << <<536870912, 1>>, <<1063057914, 0>>, <<1052480311, 0>>, <<1042007957, 0>>,
           <<1031639805, 0>>, <<1021374817, 0>>, <<1011211968, 0>>, <<1001150241, 0>>,
           <<991188630, 0>>, <<981326138, 0>> >>,
     thousandths |->
        << <<536870912, 1>>, <<1072668619, 0>>, <<1071596486, 0>>, <<1070525426, 0>>,
           <<1069455435, 0>>, <<1068386514, 0>>, <<1067318662, 0>>, <<1066251877, 0>>,
           <<1065186158, 0>>, <<1064121504, 0>> >>]

\* floor(a * b / 2^s) for 0 <= a, b < 2^30 and s = 29 or 30, in 32-bit steps.
MulHi(a, b, s) ==
    LET x1 == (a \div H) * (b % H)
        x2 == (a % H) * (b \div H)
        j  == 2^(s - 15)
    IN  (((a \div H) * (b \div H)) * 2^(30 - s))
            + (x1 \div j) + (x2 \div j)
            + (((x1 % j) + (x2 % j) + (((a % H) * (b % H)) \div H)) \div j)

\* The product of two table values, to 30 bits.
FMul(a, b) ==
    LET Normal(p) ==
            IF p >= ONE \div 2 THEN <<p, a[2] + b[2]>>
            ELSE <<MulHi(a[1], b[1], 29), a[2] + b[2] - 1>>
    IN  Normal(MulHi(a[1], b[1], 30))

\* r times the entries of the table E that the bits of q select.
RECURSIVE ExpPowers(_, _, _, _)
ExpPowers(r, q, j, E) ==
    IF q = 0 THEN r
    ELSE ExpPowers(IF q % 2 = 1 THEN FMul(r, E[j]) ELSE r, q \div 2, j + 1, E)

\* e^-(a / MILLI) for a whole a >= 0, from the tables T.
ExpNeg(a, T) ==
    FMul(ExpPowers(T.negUnits[((a \div MILLI) % 16) + 1], a \div (16 * MILLI), 1,
                   T.negPowers),
         FMul(FMul(T.tenths[((a % MILLI) \div 100) + 1],
                   T.hundredths[((a \div 10) % 10) + 1]),
              T.thousandths[(a % 10) + 1]))

\* e^(a / MILLI) for a whole a > 0: e^n * e^-(n - a / MILLI), n the next
\* whole number.
ExpPos(a, T) ==
    LET Back(n, w) == IF a % MILLI = 0 THEN w ELSE FMul(w, ExpNeg(n * MILLI - a, T))
        Whole(n) ==
            Back(n, ExpPowers(T.posUnits[(n % 16) + 1], n \div 16, 1, T.posPowers))
    IN  Whole((a + MILLI - 1) \div MILLI)

\* What math.exp raises when the result is too large for a double.
OverflowError == 1500000000

\* math.exp(x): the value f * 2^(k - 30) + lo / 2^60 with 2^29 <= f < 2^30
\* (1.0 is f = 2^29, k = 1), to 26 bits; f is 0 for 0.0, INF for inf, NAN for
\* nan, OverflowError when the call raises.  The exponent is taken of x.m:
\* x.lo is below 2^-30 of it when x.m is not 0.  For x.m = 0 the result is
\* the double nearest to 1 + x + x^2/2, which differs from 1.0 when x is
\* above 2^-53 or below -2^-54 (the doubles are 2^-52 apart above 1 and
\* 2^-53 apart below).
exp(x) ==
    IF x.m \in {NAN, INF} THEN [f |-> x.m, k |-> 0, lo |-> 0]
    ELSE IF x.m = -INF \/ x.m < -745133 THEN [f |-> 0, k |-> 0, lo |-> 0]
    ELSE IF x.m > 709782 THEN [f |-> OverflowError, k |-> 0, lo |-> 0]
    ELSE IF x.m = 0
    THEN LET Near1(t) ==
                 [f |-> ONE \div 2, k |-> 1,
                  lo |-> IF t \in 0..128 THEN 0
                         ELSE IF t > 0 THEN 256 * ((t + 128) \div 256)
                         ELSE 128 * ((t + 64) \div 128)]
         IN  Near1(x.lo \div 125)
    ELSE LET Value(w) == [f |-> w[1], k |-> w[2], lo |-> 0]
             Lookup(T) == IF x.m < 0 THEN ExpNeg(-x.m, T) ELSE ExpPos(x.m, T)
         IN  Value(Lookup(ExpTable))

\* floor(PSCALE * n / d) for 0 <= n <= d < 2^31, d > 0, in 32-bit steps.
Quot(n, d) ==
    LET N  == (PSCALE * (n \div H)) + ((PSCALE * (n % H)) \div H)
        Nr == (PSCALE * (n % H)) % H
        AtMost(y) ==
            LET L == (y * (d \div H)) + ((y * (d % H)) \div H)
            IN  L < N \/ (L = N /\ (y * (d % H)) % H <= Nr)
        x0 == N \div ((d \div H) + 1)
    IN  CHOOSE y \in x0..(x0 + 2) : AtMost(y) /\ ~AtMost(y + 1)

\* ez, a value of exp in [0, 1], in units of 2^-30.
Fixed(ez) ==
    IF ez.k = 1 THEN ONE ELSE IF ez.k < -29 THEN 0 ELSE ez.f \div 2^(-ez.k)

\* Variant: the branch for z < 0 divides by (1 - ez).
logistic_minus(z) ==
    LET Upper(ez, E) ==
            IF ez.f = 0 \/ ez.k <= -53 THEN PSCALE
            ELSE IF E = 0 THEN PSCALE - 1
            ELSE IF E = ONE THEN PSCALE \div 2
            ELSE Quot(ONE, ONE + E)
        Lower(ez, E) ==
            IF ez.f = NAN \/ E = ONE THEN NAN
            ELSE IF ez.f = 0 THEN 0
            ELSE (PSCALE * (E \div H)) \div (((ONE - E) \div H) + 1)
        NonNegative(ez) == Upper(ez, Fixed(ez))
        Negative(ez) == Lower(ez, Fixed(ez))
    IN  IF fge(z, Dbl(0, 0)) THEN NonNegative(exp(fneg(z))) ELSE Negative(exp(z))

\* logistic(z): the result in PSCALE units, rounded down.  1.0 + ez is 1.0
\* when ez is below 2^-53.
logistic(z) ==
    LET \* return 1.0 / (1.0 + ez), E being ez in units of 2^-30
        Upper(ez, E) ==
            IF ez.f = 0 \/ ez.k <= -53 THEN PSCALE
            ELSE IF E = 0 THEN PSCALE - 1
            ELSE IF E = ONE THEN PSCALE \div 2
            ELSE Quot(ONE, ONE + E)
        \* return ez / (1.0 + ez)
        Lower(ez, E) ==
            IF ez.f = NAN THEN NAN
            ELSE IF ez.f = 0 THEN 0
            ELSE IF E = ONE THEN (IF ez.lo < 0 THEN (PSCALE \div 2) - 1 ELSE PSCALE \div 2)
            ELSE Quot(E, ONE + E)
        NonNegative(ez) == Upper(ez, Fixed(ez))
        Negative(ez) == Lower(ez, Fixed(ez))
    IN  IF fge(z, Dbl(0, 0)) THEN NonNegative(exp(fneg(z))) ELSE Negative(exp(z))

(***************************************************************************)
(* src/app.py: MODEL INPUTS (SIGNIFICANT ONLY)                             *)
(***************************************************************************)
\* Variant of the first lines of build_inputs that leaves Constant at 0.0.
NewInputs_noconstant ==
    ZeroDict(COEF)

\* inp = {k: 0.0 for k in COEF.keys()}; inp["Constant"] = 1.0
NewInputs ==
    Put(ZeroDict(COEF), "Constant", 1)

\* Education
EncodeEdu(inp, edu_label) ==
    IF edu_label = "Undergraduate"
    THEN Put(inp, "Tahap Pendidikan=Undergraduate(1)", 1)
    ELSE inp

\* Variant: a retired tenant is encoded as a private-sector employee.
EncodeJob_pesara(inp, job_label) ==
    IF job_label = "Pekerja Kerajaan"
    THEN Put(inp, "Pekerjaan=Pekerja Kerajaan(1)", 1)
    ELSE IF job_label \in {"Pekerja Swasta", "Pesara"}
    THEN Put(inp, "Pekerjaan=Pekerja Swasta(1)", 1)
    ELSE inp

\* Occupation (only significant ones)
EncodeJob(inp, job_label) ==
    IF job_label = "Pekerja Kerajaan"
    THEN Put(inp, "Pekerjaan=Pekerja Kerajaan(1)", 1)
    ELSE IF job_label = "Pekerja Swasta"
    THEN Put(inp, "Pekerjaan=Pekerja Swasta(1)", 1)
    ELSE inp

\* Type of rental (Rumah/Bilik)
EncodePenyewaan(inp, jenis_penyewaan_label) ==
    IF jenis_penyewaan_label = "Bilik"
    THEN Put(inp, "Jenis Penyewaan=Bilik(1)", 1)
    ELSE inp

\* Variant: the condominium dummy is written under the English spelling,
\* which is not a key of COEF.
EncodeRumahSewa_typo(inp, jenis_rumah_sewa_label) ==
    IF jenis_rumah_sewa_label = "Condominium"
    THEN Put(inp, "Jenis rumah sewa=Condominium(1)", 1)
    ELSE IF jenis_rumah_sewa_label = "Pangsapuri"
    THEN Put(inp, "Jenis rumah sewa=Pangsapuri(1)", 1)
    ELSE IF jenis_rumah_sewa_label = "Rumah 1 unit"
    THEN Put(inp, "Jenis rumah sewa=Rumah 1 unit(1)", 1)
    ELSE IF jenis_rumah_sewa_label = "Rumah Teres"
    THEN Put(inp, "Jenis rumah sewa=Rumah Teres(1)", 1)
    ELSE inp

\* House type (only significant ones)
EncodeRumahSewa(inp, jenis_rumah_sewa_label) ==
    IF jenis_rumah_sewa_label = "Condominium"
    THEN Put(inp, "Jenis rumah sewa=Kondominium(1)", 1)
    ELSE IF jenis_rumah_sewa_label = "Pangsapuri"
    THEN Put(inp, "Jenis rumah sewa=Pangsapuri(1)", 1)
    ELSE IF jenis_rumah_sewa_label = "Rumah 1 unit"
    THEN Put(inp, "Jenis rumah sewa=Rumah 1 unit(1)", 1)
    ELSE IF jenis_rumah_sewa_label = "Rumah Teres"
    THEN Put(inp, "Jenis rumah sewa=Rumah Teres(1)", 1)
    ELSE inp

\* Furnish type (only separa significant)
EncodePerabot(inp, perabot_label) ==
    IF perabot_label = "Perabot separa"
    THEN Put(inp, "Jenis kelengkapan perabot=Berperabot separa(1)", 1)
    ELSE inp

\* Variant: the deposit "3 + 1" writes the dummy of another group.
EncodeDeposit_cross(inp, deposit_label) ==
    IF deposit_label = "2 + 1"
    THEN Put(inp, "deposit_2_1(1)", 1)
    ELSE IF deposit_label = "3 + 1"
    THEN Put(inp, "Jenis Penyewaan=Bilik(1)", 1)
    ELSE inp

\* Deposit (only 2+1 significant)
EncodeDeposit(inp, deposit_label) ==
    IF deposit_label = "2 + 1"
    THEN Put(inp, "deposit_2_1(1)", 1)
    ELSE inp

\* Renting duration (only 3-5 and 6+ significant)
EncodeTempoh(inp, tempoh_label) ==
    IF tempoh_label = "3 - 5 tahun"
    THEN Put(inp, "Berapa lama anda telah menyewa rumah=3-5 tahun(1)", 1)
    ELSE IF tempoh_label = "Lebih 6 tahun"
    THEN Put(inp, "Berapa lama anda telah menyewa rumah=6+ tahun(1)", 1)
    ELSE inp

build_inputs(edu_label, job_label, jenis_penyewaan_label, jenis_rumah_sewa_label, perabot_label, deposit_label, tempoh_label) ==
    EncodeTempoh(
      EncodeDeposit(
        EncodePerabot(
          EncodeRumahSewa(
            EncodePenyewaan(
              EncodeJob(
                EncodeEdu(NewInputs, edu_label),
                job_label),
              jenis_penyewaan_label),
            jenis_rumah_sewa_label),
          perabot_label),
        deposit_label),
      tempoh_label)

(***************************************************************************)
(* The breakdown table and the score (compute_table in src/app.py, the     *)
(* loop of compute_all in the old snapshot), over a coefficient table C.   *)
(***************************************************************************)
\* Variant: a name missing from the vector is read as 1.0.
Row_default1(var, coef, inp) ==
    LET x == Get(inp, var, 1)
    IN  [Variable |-> var, COEF |-> coef, INPUT |-> x, PRODUCT |-> fmul(coef, x)]

\* One row: Variable, COEF, INPUT, COEF x INPUT.
Row(var, coef, inp) ==
    LET x == Get(inp, var, 0)
    IN  [Variable |-> var, COEF |-> coef, INPUT |-> x, PRODUCT |-> fmul(coef, x)]

\* rows = []; for var, coef in C.items(): rows.append({...}), after the
\* first n items
RECURSIVE AppendRows(_, _, _)
AppendRows(C, inp, n) ==
    IF n = 0 THEN << >>
    ELSE Append(AppendRows(C, inp, n - 1), Row(C[n][1], C[n][2], inp))

Rows(C, inp) ==
    AppendRows(C, inp, Len(C))

\* z + a[i] + ... + a[n], added from left to right (nan stays nan).
RECURSIVE AddUp(_, _, _, _)
AddUp(z, a, i, n) ==
    LET Rest(t) == IF t.m = NAN THEN t ELSE AddUp(t, a, i + 1, n)
    IN  IF i > n THEN z ELSE Rest(fadd(z, a[i]))

\* Variant of the loop of compute_all that adds to z before the last row is
\* built, so that the last product is in the table and not in z.
SumProducts_short(rows, n) ==
    AddUp(Dbl(0, 0), [i \in 1..n |-> rows[i].PRODUCT], 1, n - 1)

\* z = 0.0; z += prod for each row: the sum of the product column of the
\* first n rows, each addition rounded.
SumProducts(rows, n) ==
    AddUp(Dbl(0, 0), [i \in 1..n |-> rows[i].PRODUCT], 1, n)

\* a[j] + a[8 + j] + ... + a[8 * b + j]
RECURSIVE LaneSum(_, _, _)
LaneSum(a, j, b) ==
    IF b = 0 THEN a[j] ELSE fadd(LaneSum(a, j, b - 1), a[8 * b + j])

\* r[i] + ... + r[j], the two halves added up separately and then together
RECURSIVE Halves(_, _, _)
Halves(r, i, j) ==
    IF i = j THEN r[i]
    ELSE fadd(Halves(r, i, (i + j) \div 2), Halves(r, ((i + j) \div 2) + 1, j))

\* numpy's sum of the doubles a[1..n], n <= 128 (pairwise summation): below
\* 8 elements from left to right; otherwise eight running sums over the
\* blocks of 8, combined as ((r0+r1)+(r2+r3))+((r4+r5)+(r6+r7)), and then
\* the elements after the last full block from left to right.
PairwiseSum(a, n) ==
    LET b == n \div 8
    IN  AddUp(IF b = 0 THEN Dbl(0, 0)
              ELSE Halves([j \in 1..8 |-> LaneSum(a, j, b - 1)], 1, 8),
              a, (8 * b) + 1, n)

\* df["COEF x INPUT"].sum(): pandas replaces the NaN entries by 0.0
\* (skipna=True) and calls numpy's sum.
SumColumn(rows, n) ==
    PairwiseSum([i \in 1..n |-> IF rows[i].PRODUCT.m = NAN THEN Dbl(0, 0) ELSE rows[i].PRODUCT],
                n)

\* compute_table(inputs) -> (df, z, p)
compute_table(inp) ==
    LET Scored(rows, z) == [df |-> rows, z |-> z, p |-> logistic(z)]
        Summed(rows) == Scored(rows, SumColumn(rows, Len(rows)))
    IN  Summed(Rows(COEF, inp))


(***************************************************************************)
(* src/unnamed/part_000: coefficient table and option lists.               *)
(***************************************************************************)
COEF_old ==
    << <<"Umur", -6>>,
       <<"Jantina ketua keluarga(1)", 40>>,
       <<"Warganegara(1)", -2490>>,
       <<"Bangsa(1)", -1222>>,
       <<"Bangsa(2)", -1693>>,
       <<"Bangsa(3)", 17641>>,
       <<"Bangsa(4)", 1828>>,
       <<"Agama(1)", -291>>,
       <<"Agama(2)", -15980>>,
       <<"Agama(3)", 175>>,
       <<"Status Perkahwinan(1)", -25465>>,
       <<"Status Perkahwinan(2)", 1468>>,
       <<"Status Perkahwinan(3)", -114>>,
       <<"Status Perkahwinan(4)", 20673>>,
       <<"Tahap Pendidikan(1)", -292>>,
       <<"Tahap Pendidikan(2)", -270>>,
       <<"Tahap Pendidikan(3)", -371>>,
       <<"Tahap Pendidikan(4)", -22714>>,
       <<"Tahap Pendidikan(5)", 20045>>,
       <<"Tahap Pendidikan(6)", -1436>>,
       <<"Tahap Pendidikan(7)", 18556>>,
       <<"Tahap Pendidikan(8)", 30823>>,
       <<"Pekerjaan(1)", -19721>>,
       <<"Pekerjaan(2)", -20390>>,
       <<"Pekerjaan(3)", -18736>>,
       <<"Pekerjaan(4)", -20434>>,
       <<"Pekerjaan(5)", -35097>>,
       <<"Pekerjaan(6)", 85>>,
       <<"Bilangan isi rumah(1)", -392>>,
       <<"Bilangan isi rumah(2)", -398>>,
       <<"Bilangan isi rumah(3)", -12>>,
       <<"Bilangan isi rumah(4)", 158>>,
       <<"Bilangan tanggungan(1)", 729>>,
       <<"Bilangan tanggungan(2)", -1316>>,
       <<"Bilangan tanggungan(3)", 20145>>,
       <<"Bilangan tanggungan(4)", 17796>>,
       <<"Jenis rumah sewa(1)", 307>>,
       <<"Jenis rumah sewa(2)", -493>>,
       <<"Jenis rumah sewa(3)", 579>>,
       <<"Jenis rumah sewa(4)", -331>>,
       <<"Jenis rumah sewa(5)", 18194>>,
       <<"Jenis kelengkapan perabot(1)", -460>>,
       <<"Bayaran deposit(1)", 1511>>,
       <<"Bayaran deposit(2)", 841>>,
       <<"Bayaran deposit(3)", 1496>>,
       <<"Bayaran deposit(4)", 1975>>,
       <<"Bayaran deposit(5)", -487>>,
       <<"Bayaran deposit(6)", 18336>>,
       <<"Berapa lama anda telah menyewa rumah(1)", -17564>>,
       <<"Berapa lama anda telah menyewa rumah(2)", -18419>>,
       <<"Berapa lama anda telah menyewa rumah(3)", -17135>>,
       <<"Berapa lama anda telah menyewa rumah(4)", -18690>>,
       <<"Adakah anda mengetahui terdapat skim mampu sewa di Malaysia? (contoh: SMART sewa)(1)", 531>>,
       <<"Constant", 38956>> >>

OPTIONS_old ==
    [f \in {"Gender", "Nationality", "Ethnicity", "Religion", "Marital Status", "Level of Education", "Occupation", "No household", "Number of dependent", "Type of rental Housing", "Furnished type", "deposit", "Total year of rental", "known SMART SEWA"} |->
       CASE f = "Gender" -> << "Man", "Woman" >>
         [] f = "Nationality" -> << "Malaysian citizen", "Non-Malaysian citizen" >>
         [] f = "Ethnicity" -> << "Malay", "Chinese", "Indian", "Sabah", "Sarawak" >>
         [] f = "Religion" -> << "Islam", "Buddha", "Hindu", "Others" >>
         [] f = "Marital Status" -> << "Single", "Married", "Widowed", "Divorced", "Separated" >>
         [] f = "Level of Education" -> << "No certificate", "UPSR", "PT3", "SPM", "STPM", "SIJIL/TVET", "Sijil Politeknik/Universiti", "Diploma", "Bachelor's Degree" >>
         [] f = "Occupation" -> << "tidak bekerja", "pekerja kerajaan", "pekerja swasta", "bekerja sendiri", "suri rumah", "pelajar", "pesara kerajaan" >>
         [] f = "No household" -> << "1 org", "2 people", "3 - 4 people", "5 - 6 people", "7 people or more" >>
         [] f = "Number of dependent" -> << "None", "1 - 2 people", "3 - 4 people", "5 - 6 people", "7 people or more" >>
         [] f = "Type of rental Housing" -> << "House", "Room", "Flat", "Apartment", "Condominium", "Terrace House - Single storey", "Terrace House - Double storey", "1 unit House" >>
         [] f = "Furnished type" -> << "None", "furnished", "1 + 1", "2 + 1", "3 + 1", "1 + 1 + utility", "2 + 1 + utility", "3 + 1 + utility" >>
         [] f = "deposit" -> << "tiada", "1 + 1", "2 + 1", "3 + 1", "1 + 1 + utility", "2 + 1 + utility", "3 + 1 + utility" >>
         [] f = "Total year of rental" -> << "Less than 6 months", "Less than 1 year", "1 - 2 years", "3 - 5 years", "6 - 10 years" >>
         [] f = "known SMART SEWA" -> << "Yes", "No" >>]


(***************************************************************************)
(* src/unnamed/part_000: one_hot_inputs                                    *)
(***************************************************************************)
\* for k in range(k, stop): inp[f"{base}({k})"] = 1.0 if idx == k else 0.0
RECURSIVE DummyLoop(_, _, _, _, _)
DummyLoop(inp, base, k, stop, idx) ==
    IF k >= stop THEN inp
    ELSE DummyLoop(Put(inp, Key(base, k), IF idx = k THEN 1 ELSE 0),
                   base, k + 1, stop, idx)

\* Variant of the first lines of one_hot_inputs that leaves Umur at 0.0.
NewInputs_old_noage(a) ==
    Put(ZeroDict(COEF_old), "Constant", 1)

\* inp = {k: 0.0 for k in COEF.keys()}; inp["Constant"] = 1.0;
\* inp["Umur"] = float(age)
NewInputs_old(a) ==
    Put(Put(ZeroDict(COEF_old), "Constant", 1), "Umur", a)

\* Variant: the baseline "Man" activates the dummy instead of "Woman".
EncodeGender_inverted(inp, gender_idx) ==
    Put(inp, "Jantina ketua keluarga(1)", IF gender_idx = 0 THEN 1 ELSE 0)

\* Gender: Woman -> (1)
EncodeGender(inp, gender_idx) ==
    Put(inp, "Jantina ketua keluarga(1)", IF gender_idx = 1 THEN 1 ELSE 0)

\* Nationality: Non-Malaysian -> (1)
EncodeNationality(inp, nationality_idx) ==
    Put(inp, "Warganegara(1)", IF nationality_idx = 1 THEN 1 ELSE 0)

\* Ethnicity dummies (1..4) for indices 1..4
EncodeEthnicity(inp, ethnicity_idx) ==
    DummyLoop(inp, "Bangsa", 1, 5, ethnicity_idx)

\* Religion dummies (1..3) for indices 1..3
EncodeReligion(inp, religion_idx) ==
    DummyLoop(inp, "Agama", 1, 4, religion_idx)

\* Marital dummies (1..4) for indices 1..4
EncodeMarital(inp, marital_idx) ==
    DummyLoop(inp, "Status Perkahwinan", 1, 5, marital_idx)

\* Education dummies (1..8) for indices 1..8
EncodeEducation(inp, edu_idx) ==
    DummyLoop(inp, "Tahap Pendidikan", 1, 9, edu_idx)

\* Occupation dummies (1..6) for indices 1..6
EncodeOccupation(inp, job_idx) ==
    DummyLoop(inp, "Pekerjaan", 1, 7, job_idx)

\* Household size dummies (1..4) for indices 1..4
EncodeHousehold(inp, household_idx) ==
    DummyLoop(inp, "Bilangan isi rumah", 1, 5, household_idx)

\* Dependents dummies (1..4) for indices 1..4
EncodeDependents(inp, dep_idx) ==
    DummyLoop(inp, "Bilangan tanggungan", 1, 5, dep_idx)

\* Rental type: coefficients exist only for (1..5); idx 6..7 stay all 0
EncodeRental(inp, rental_idx) ==
    DummyLoop(inp, "Jenis rumah sewa", 1, 6, rental_idx)

\* Variant: every non-baseline furnishing level activates dummy (1).
EncodeFurnished_any(inp, furnished_idx) ==
    Put(inp, "Jenis kelengkapan perabot(1)", IF furnished_idx >= 1 THEN 1 ELSE 0)

\* Furnished: only (1) exists in the coefficient list
EncodeFurnished(inp, furnished_idx) ==
    Put(inp, "Jenis kelengkapan perabot(1)", IF furnished_idx = 1 THEN 1 ELSE 0)

\* Deposit dummies (1..6) for indices 1..6
EncodeDepositIdx(inp, deposit_idx) ==
    DummyLoop(inp, "Bayaran deposit", 1, 7, deposit_idx)

\* Years renting dummies (1..4) for indices 1..4
EncodeYears(inp, years_idx) ==
    DummyLoop(inp, "Berapa lama anda telah menyewa rumah", 1, 5, years_idx)

\* SMART SEWA known: "No" -> (1)
EncodeSmart(inp, smart_idx) ==
    Put(inp,
        "Adakah anda mengetahui terdapat skim mampu sewa di Malaysia? (contoh: SMART sewa)(1)",
        IF smart_idx = 1 THEN 1 ELSE 0)

\* one_hot_inputs(age=..., gender_idx=..., ...); idx is the record of the
\* keyword arguments.
one_hot_inputs(a, idx) ==
    LET i0  == NewInputs_old(a)
        i1  == EncodeGender(i0, idx.gender_idx)
        i2  == EncodeNationality(i1, idx.nationality_idx)
        i3  == EncodeEthnicity(i2, idx.ethnicity_idx)
        i4  == EncodeReligion(i3, idx.religion_idx)
        i5  == EncodeMarital(i4, idx.marital_idx)
        i6  == EncodeEducation(i5, idx.edu_idx)
        i7  == EncodeOccupation(i6, idx.job_idx)
        i8  == EncodeHousehold(i7, idx.household_idx)
        i9  == EncodeDependents(i8, idx.dep_idx)
        i10 == EncodeRental(i9, idx.rental_idx)
        i11 == EncodeFurnished(i10, idx.furnished_idx)
        i12 == EncodeDepositIdx(i11, idx.deposit_idx)
        i13 == EncodeYears(i12, idx.years_idx)
    IN  EncodeSmart(i13, idx.smart_idx)

\* The keyword arguments compute_all passes: OPTIONS[field].index(selection).
Indices(s) ==
    [gender_idx      |-> IndexOf(OPTIONS_old["Gender"], s["Gender"]),
     nationality_idx |-> IndexOf(OPTIONS_old["Nationality"], s["Nationality"]),
     ethnicity_idx   |-> IndexOf(OPTIONS_old["Ethnicity"], s["Ethnicity"]),
     religion_idx    |-> IndexOf(OPTIONS_old["Religion"], s["Religion"]),
     marital_idx     |-> IndexOf(OPTIONS_old["Marital Status"], s["Marital Status"]),
     edu_idx         |-> IndexOf(OPTIONS_old["Level of Education"], s["Level of Education"]),
     job_idx         |-> IndexOf(OPTIONS_old["Occupation"], s["Occupation"]),
     household_idx   |-> IndexOf(OPTIONS_old["No household"], s["No household"]),
     dep_idx         |-> IndexOf(OPTIONS_old["Number of dependent"], s["Number of dependent"]),
     rental_idx      |-> IndexOf(OPTIONS_old["Type of rental Housing"], s["Type of rental Housing"]),
     furnished_idx   |-> IndexOf(OPTIONS_old["Furnished type"], s["Furnished type"]),
     deposit_idx     |-> IndexOf(OPTIONS_old["deposit"], s["deposit"]),
     years_idx       |-> IndexOf(OPTIONS_old["Total year of rental"], s["Total year of rental"]),
     smart_idx       |-> IndexOf(OPTIONS_old["known SMART SEWA"], s["known SMART SEWA"])]


(***************************************************************************)
(* The two decision rules and their combination.                           *)
(***************************************************************************)
\* Variant: the probability is compared with 0.5 whatever threshold is passed.
CondA_half(p, p_threshold) ==
    p # NAN /\ p >= PSCALE \div 2

\* ok_a = p >= P_THRESHOLD          (old snapshot: cond_a_ok = p >= 0.5)
CondA(p, p_threshold) ==
    p # NAN /\ p >= p_threshold

\* Variant: a zero income is replaced by 1 before the multiplication.
Threshold_guarded(rat, inc) ==
    LET Times(r, i) == IF rat = 0 THEN Dbl(0, 0) ELSE Round(r.m * i, r.lo * i)
    IN  Times(Round(10 * rat, 0), IF inc = 0 THEN 1 ELSE inc)

\* threshold = ratio * income: the double nearest to the ratio typed, times
\* the income, rounded.
Threshold(rat, inc) ==
    LET Times(r) == IF inc = 0 \/ rat = 0 THEN Dbl(0, 0) ELSE Round(r.m * inc, r.lo * inc)
    IN  Times(Round(10 * rat, 0))

\* ok_b = rent <= threshold
CondB(rn, threshold) ==
    fge(threshold, Dbl(rn * MILLI, 0))

\* Variant: the two conditions are combined by "or".
Overall_or(ok_a, ok_b) ==
    ok_a \/ ok_b

\* ok_all = ok_a and ok_b
Overall(ok_a, ok_b) ==
    ok_a /\ ok_b

\* rent_share = (rent / income) if income > 0 else 0.0, then clamped to [0, 1]
RentShare(rn, inc) ==
    clamp(IF inc > 0 THEN (rn * PSCALE) \div inc ELSE 0, 0, PSCALE)

\* "Afford" if ok else "Not Afford"
Label(ok) ==
    IF ok THEN "Afford" ELSE "Not Afford"

P_HALF == 5000

(***************************************************************************)
(* src/app.py: the run block, lines 1025-1046.                             *)
(***************************************************************************)
RunResult(z, p, rat, inc, rn) ==
    LET Stored(ok_a, threshold, ok_b) ==
            [z |-> z, p |-> p, threshold |-> threshold, ratio |-> rat,
             income |-> inc, rent |-> rn, rent_share |-> RentShare(rn, inc),
             ok_a |-> ok_a, ok_b |-> ok_b, ok_all |-> Overall(ok_a, ok_b)]
        Rules(ok_a, threshold) == Stored(ok_a, threshold, CondB(rn, threshold))
    IN  Rules(CondA(p, P_THRESHOLD), Threshold(rat, inc))

\* Variant of compute_all: when Condition A fails, the rent rule is skipped
\* and Condition B is reported as failed without being evaluated.
compute_all_early(inp, rat, inc, rn) ==
    LET Returned(rows, z, p, cond_a_ok, threshold, cond_b_ok, overall_ok) ==
            [df |-> rows, z |-> z, p |-> p, thr |-> threshold,
             cond_a |-> Label(cond_a_ok), cond_b |-> Label(cond_b_ok),
             overall |-> Label(overall_ok),
             ok_a |-> cond_a_ok, ok_b |-> cond_b_ok, ok_all |-> overall_ok]
        RuleB(rows, z, p, cond_a_ok, threshold, cond_b_ok) ==
            Returned(rows, z, p, cond_a_ok, threshold, cond_b_ok,
                     Overall(cond_a_ok, cond_b_ok))
        RuleA(rows, z, p, cond_a_ok, threshold) ==
            RuleB(rows, z, p, cond_a_ok, threshold, cond_a_ok /\ CondB(rn, threshold))
        Scored(rows, z, p) == RuleA(rows, z, p, CondA(p, P_HALF), Threshold(rat, inc))
        Summed(rows, z) == Scored(rows, z, logistic(z))
        Table(rows) == Summed(rows, SumProducts(rows, Len(rows)))
    IN  Table(Rows(COEF_old, inp))

(***************************************************************************)
(* src/unnamed/part_000: compute_all, lines 392-416, and the unpacking of  *)
(* its result on line 418.                                                 *)
(***************************************************************************)
compute_all(inp, rat, inc, rn) ==
    LET \* return df, z, p, thr, cond_a, cond_b, overall
        Returned(rows, z, p, cond_a_ok, threshold, cond_b_ok, overall_ok) ==
            [df |-> rows, z |-> z, p |-> p, thr |-> threshold,
             cond_a |-> Label(cond_a_ok), cond_b |-> Label(cond_b_ok),
             overall |-> Label(overall_ok),
             ok_a |-> cond_a_ok, ok_b |-> cond_b_ok, ok_all |-> overall_ok]
        \* overall_ok = cond_a_ok and cond_b_ok
        RuleB(rows, z, p, cond_a_ok, threshold, cond_b_ok) ==
            Returned(rows, z, p, cond_a_ok, threshold, cond_b_ok,
                     Overall(cond_a_ok, cond_b_ok))
        \* cond_b_ok = rent <= threshold
        RuleA(rows, z, p, cond_a_ok, threshold) ==
            RuleB(rows, z, p, cond_a_ok, threshold, CondB(rn, threshold))
        \* cond_a_ok = p >= 0.5; threshold = ratio * income
        Scored(rows, z, p) == RuleA(rows, z, p, CondA(p, P_HALF), Threshold(rat, inc))
        \* p = logistic(z)
        Summed(rows, z) == Scored(rows, z, logistic(z))
        \* the loop over COEF.items()
        Table(rows) == Summed(rows, SumProducts(rows, Len(rows)))
    IN  Table(Rows(COEF_old, inp))

(***************************************************************************)
(* src/app.py: GOOGLE SHEETS (APPEND ROW)                                  *)
(***************************************************************************)
\* datetime.now().strftime("%Y-%m-%d %H:%M:%S") in second clock
Stamp(clock) ==
    "T" \o ToString(clock)

\* The payload of the run block, lines 1052-1077, built in second clock;
\* every cell is text, as the worksheet returns it.
Payload(s, inc, rn, rat, r, clock) ==
    [c \in {SHEET_COLS[i] : i \in 1..Len(SHEET_COLS)} |->
       CASE c = "timestamp"          -> Stamp(clock)
         [] c = "jantina"            -> s["Jantina"]
         [] c = "warganegara"        -> s["Warganegara"]
         [] c = "bangsa"             -> s["Bangsa"]
         [] c = "agama"              -> s["Agama"]
         [] c = "status_perkahwinan" -> s["Status Perkahwinan"]
         [] c = "tahap_pendidikan"   -> s["Tahap Pendidikan"]
         [] c = "pekerjaan"          -> s["Pekerjaan"]
         [] c = "bil_isi_rumah"      -> s["Bilangan Isi Rumah"]
         [] c = "bil_tanggungan"     -> s["Bilangan Tanggungan"]
         [] c = "jenis_penyewaan"    -> s["Jenis Penyewaan"]
         [] c = "jenis_rumah_sewa"   -> s["Jenis Rumah Sewa"]
         [] c = "jenis_perabot"      -> s["Jenis Kelengkapan Perabot"]
         [] c = "deposit"            -> s["Deposit"]
         [] c = "tempoh_menyewa"     -> s["Tempoh Menyewa"]
         [] c = "skim"               -> s["Skim"]
         [] c = "income_rm"          -> ToString(inc)
         [] c = "rent_rm"            -> ToString(rn)
         [] c = "ratio_threshold"    -> ToString(rat)
         [] c = "z"                  -> ToString(r.z.m) \o "+" \o ToString(r.z.lo)
         [] c = "p"                  -> ToString(r.p)
         [] c = "condition_a_ok"     -> IF r.ok_a THEN "1" ELSE "0"
         [] c = "condition_b_ok"     -> IF r.ok_b THEN "1" ELSE "0"
         [] c = "overall_ok"         -> IF r.ok_all THEN "1" ELSE "0"]

\* datetime.now().strftime("%Y-%m-%d %H:%M:%S") reads the clock to the
\* second: the second of the first reading is numbered 1, a later reading
\* shows the second of the reading before it or the next one.
Seconds(last) ==
    IF last = 0 THEN {1} ELSE {last, last + 1}

\* ws.row_values(1)
row_values1(sheet) ==
    IF Len(sheet) = 0 THEN << >> ELSE sheet[1]

\* Variant of the test of ensure_header: the header is inserted whatever
\* row 1 holds.
HeaderMissing_always(first_row) ==
    TRUE

\* if first_row != SHEET_COLS
HeaderMissing(first_row) ==
    first_row # SHEET_COLS

\* row = [payload.get(c, "") for c in SHEET_COLS]
RowOf(payload) ==
    [i \in 1..Len(SHEET_COLS) |-> Get(payload, SHEET_COLS[i], "")]

(***************************************************************************)
(* Streamlit runs the script of each session in a thread of its own, and   *)
(* every session writes to the one worksheet.  A call of append_to_sheet   *)
(* makes four requests, get_sheet, row_values, insert_row and append_row,  *)
(* each of which blocks until the service answers, and the requests of the *)
(* calls of two sessions interleave.  calls[t] is the call of session t:   *)
(* the request it makes next (pc), its payload and the row it read as row  *)
(* 1 (locals of the call, gone when it ends), the number of calls the      *)
(* session has made and of those that returned without raising, whether it *)
(* started one while a call of another session was running (SpecSheet),    *)
(* and the cells its widgets give to a payload.  Session 1 is the session  *)
(* whose widgets the model follows, and notice is what its run block       *)
(* reports when its call ends.                                             *)
(***************************************************************************)
Sessions == {1, 2}

\* A session that has not called append_to_sheet; w is the payload its run
\* block builds from its widgets (none for a session whose widgets are the
\* variables of the model, or which is handed its payloads).
NoCall(w) ==
    [pc |-> "idle", payload |-> << >>, first_row |-> << >>,
     made |-> 0, ok |-> 0, overlapped |-> FALSE, widgets |-> w]

\* Session t enters append_to_sheet(p).
Entered(t, p) ==
    [calls EXCEPT ![t].pc = "get_sheet", ![t].payload = p, ![t].made = @ + 1]

\* Session t leaves append_to_sheet, having raised or not.
Left(t, raised) ==
    [calls EXCEPT ![t].pc = "idle", ![t].payload = << >>, ![t].first_row = << >>,
                  ![t].ok = IF raised THEN @ ELSE @ + 1]

\* The try statement around the call, lines 1078-1086: st.toast when it
\* returns, st.error when it raised.
Reported(t, raised) ==
    IF t = 1 THEN (IF raised THEN "failed" ELSE "saved") ELSE notice

\* What no request changes.
SheetFrame ==
    UNCHANGED << prog, sel, age, income, rent, ratio, save_to_sheet, dark_mode,
                 result, inputs, df, sheet_ok, edits, runs, now >>

\* ws = get_sheet(): an exception ends the call.
S_get_sheet(t, fail) ==
    /\ calls[t].pc = "get_sheet"
    /\ calls' = IF fail THEN Left(t, TRUE) ELSE [calls EXCEPT ![t].pc = "row_values"]
    /\ notice' = IF fail THEN Reported(t, TRUE) ELSE notice
    /\ ws' = ws
    /\ SheetFrame

\* first_row = ws.row_values(1) and the test of it; an exception ends
\* ensure_header and nothing else.
S_row_values(t, fail) ==
    /\ calls[t].pc = "row_values"
    /\ calls' = [calls EXCEPT
                   ![t].first_row = IF fail THEN @ ELSE row_values1(ws),
                   ![t].pc = IF ~fail /\ HeaderMissing(row_values1(ws))
                             THEN "insert_row" ELSE "append_row"]
    /\ UNCHANGED << ws, notice >>
    /\ SheetFrame

\* ws.insert_row(SHEET_COLS, 1); an exception is swallowed.
S_insert_row(t, fail) ==
    /\ calls[t].pc = "insert_row"
    /\ ws' = IF fail THEN ws ELSE << SHEET_COLS >> \o ws
    /\ calls' = [calls EXCEPT ![t].pc = "append_row"]
    /\ notice' = notice
    /\ SheetFrame

\* Variant: the row is appended a second time.
S_append_row_twice(t, fail) ==
    /\ calls[t].pc = "append_row"
    /\ ws' = IF fail THEN ws
             ELSE Append(Append(ws, RowOf(calls[t].payload)), RowOf(calls[t].payload))
    /\ calls' = Left(t, fail)
    /\ notice' = Reported(t, fail)
    /\ SheetFrame

\* ws.append_row(row); an exception leaves append_to_sheet.
S_append_row(t, fail) ==
    /\ calls[t].pc = "append_row"
    /\ ws' = IF fail THEN ws ELSE Append(ws, RowOf(calls[t].payload))
    /\ calls' = Left(t, fail)
    /\ notice' = Reported(t, fail)
    /\ SheetFrame


(***************************************************************************)
(* The values the user may enter.  Selectboxes offer OPTIONS; the number   *)
(* inputs accept any value in their range, of which the model enters:      *)
(***************************************************************************)
Ages    == {15, 38, 100}
Incomes == {0, 100, 6000}
Rents   == {0, 1, 2000, 2280, 3000}
Ratios  == {0, 38, 100}

Options(pg) ==
    IF pg = "app" THEN OPTIONS ELSE OPTIONS_old

\* Every selectbox is created with index=0.
Defaults(pg) ==
    [f \in DOMAIN Options(pg) |-> Options(pg)[f][1]]

\* A profile of the old snapshot whose products add up to 0 at age 15: the
\* position of the selected option in each list of OPTIONS.
ZeroSumIndex ==
    [f \in DOMAIN OPTIONS_old |->
       CASE f = "Gender" -> 0
         [] f = "Nationality" -> 1
         [] f = "Ethnicity" -> 2
         [] f = "Religion" -> 0
         [] f = "Marital Status" -> 3
         [] f = "Level of Education" -> 0
         [] f = "Occupation" -> 5
         [] f = "No household" -> 2
         [] f = "Number of dependent" -> 4
         [] f = "Type of rental Housing" -> 2
         [] f = "Furnished type" -> 4
         [] f = "deposit" -> 1
         [] f = "Total year of rental" -> 2
         [] f = "known SMART SEWA" -> 1]

\* The selections a modelled session starts from: the defaults, and the
\* profiles the user reaches by changing every selectbox before the first
\* click (every field at its second option, every field at its last option,
\* and in the old snapshot the profile of ZeroSumIndex).
StartSels(pg) ==
    { Defaults(pg),
      [f \in DOMAIN Options(pg) |-> Options(pg)[f][2]],
      [f \in DOMAIN Options(pg) |-> Options(pg)[f][Len(Options(pg)[f])]] }
    \cup (IF pg = "old"
          THEN {[f \in DOMAIN OPTIONS_old |-> OPTIONS_old[f][ZeroSumIndex[f] + 1]]}
          ELSE {})

\* value=6000.0, value=2000.0, value=0.38 of the three number inputs
DefaultMoney ==
    [income |-> 6000, rent |-> 2000, ratio |-> 38]

\* The income, rent and ratio a modelled session starts from: the defaults
\* (value=6000.0, value=2000.0, value=0.38), no income with no rent, and a
\* rent of 29 % of the income with the ratio at 0.29.
StartMoney ==
    { DefaultMoney,
      [income |-> 0, rent |-> 0, ratio |-> 38],
      [income |-> 100, rent |-> 29, ratio |-> 29] }

\* The widget values a modelled session starts from: the default amounts
\* with each of the start selections, and each of the start amounts with
\* the default selections.
Starts(pg) ==
    { st \in [sel : StartSels(pg), money : StartMoney] :
         st.sel = Defaults(pg) \/ st.money = DefaultMoney }

(***************************************************************************)
(* One execution of the script (Streamlit reruns it on every widget change *)
(* and on every button click) with the widget values s, a, inc, rn, rat,   *)
(* save.  An execution is one step up to the call of append_to_sheet; the  *)
(* requests of the call are steps of their own, between which the other    *)
(* session makes its requests.                                             *)
(***************************************************************************)
\* The script of the session is not inside append_to_sheet.  The script
\* thread takes up a widget change or a click when the running script has
\* returned from the call.
ScriptIdle ==
    prog = "app" => calls[1].pc = "idle"

\* Run clicks so far, in this session and in the second one.
Clicks ==
    runs + (IF 2 \in DOMAIN calls THEN calls[2].made ELSE 0)

\* Variant: the result is a local of the script and not an entry of
\* session_state, so a rerun without a click starts without one.
AppScriptNoRun_clear ==
    /\ result' = None
    /\ inputs' = None
    /\ df' = None
    /\ notice' = ""
    /\ UNCHANGED << ws, now, runs >>

\* src/app.py, lines 1010-1088, with run = False: nothing is computed and
\* session_state keeps the stored result.
AppScriptNoRun ==
    /\ result' = result
    /\ inputs' = None
    /\ df' = None
    /\ notice' = ""
    /\ UNCHANGED << ws, now, runs >>

\* src/app.py, lines 1049-1088, up to the call: with the toggle on and the
\* sink configured the payload is built and append_to_sheet(payload) is
\* entered; nothing is reported before the call ends.
Logging(r) ==
    /\ ws' = ws
    /\ IF save_to_sheet
       THEN IF sheet_ok
            THEN \E t \in Seconds(now) :
                     /\ now' = t
                     /\ calls' = Entered(1, Payload(sel, income, rent, ratio, r, t))
                     /\ notice' = ""
            ELSE /\ calls' = calls /\ now' = now
                 /\ notice' = "not configured"
       ELSE /\ calls' = calls /\ now' = now
            /\ notice' = ""

\* Variant: the result is stored after the logging block, so a run that
\* logs enters append_to_sheet with session_state as it was.
AppScriptRun_fatal ==
    \E inp \in {build_inputs(sel["Tahap Pendidikan"], sel["Pekerjaan"],
                             sel["Jenis Penyewaan"], sel["Jenis Rumah Sewa"],
                             sel["Jenis Kelengkapan Perabot"], sel["Deposit"],
                             sel["Tempoh Menyewa"])} :
    \E ct \in {compute_table(inp)} :
    \E r \in {RunResult(ct.z, ct.p, ratio, income, rent)} :
        /\ inputs' = Some(inp)
        /\ df' = Some(ct.df)
        /\ result' = IF save_to_sheet /\ sheet_ok THEN result ELSE Some(r)
        /\ runs' = runs + 1
        /\ Logging(r)

\* Variant of the run block that passes the Skim selection to build_inputs
\* as tempoh_label.
AppScriptRun_skim ==
    \E inp \in {build_inputs(sel["Tahap Pendidikan"], sel["Pekerjaan"],
                             sel["Jenis Penyewaan"], sel["Jenis Rumah Sewa"],
                             sel["Jenis Kelengkapan Perabot"], sel["Deposit"],
                             sel["Skim"])} :
    \E ct \in {compute_table(inp)} :
    \E r \in {RunResult(ct.z, ct.p, ratio, income, rent)} :
        /\ inputs' = Some(inp)
        /\ df' = Some(ct.df)
        /\ result' = Some(r)
        /\ runs' = runs + 1
        /\ Logging(r)

\* src/app.py, lines 1014-1088, with run = True, up to the call of
\* append_to_sheet.
AppScriptRun ==
    \E inp \in {build_inputs(sel["Tahap Pendidikan"], sel["Pekerjaan"],
                             sel["Jenis Penyewaan"], sel["Jenis Rumah Sewa"],
                             sel["Jenis Kelengkapan Perabot"], sel["Deposit"],
                             sel["Tempoh Menyewa"])} :
    \E ct \in {compute_table(inp)} :
    \E r \in {RunResult(ct.z, ct.p, ratio, income, rent)} :
        /\ inputs' = Some(inp)
        /\ df' = Some(ct.df)
        /\ result' = Some(r)
        /\ runs' = runs + 1
        /\ Logging(r)

\* src/unnamed/part_000, line 418: compute_all() runs in every execution.
OldScript(s, a, inc, rn, rat) ==
    \E inp \in {one_hot_inputs(a, Indices(s))} :
    \E out \in {compute_all(inp, rat, inc, rn)} :
        /\ inputs' = Some(inp)
        /\ df' = Some(out.df)
        /\ result' = Some([k \in (DOMAIN out) \ {"df"} |-> out[k]])
        /\ UNCHANGED << ws, now, notice, runs >>

Script(s, a, inc, rn, rat) ==
    IF prog = "app" THEN AppScriptNoRun ELSE OldScript(s, a, inc, rn, rat)

(***************************************************************************)
(* Initial states: the execution of the script that precedes the first     *)
(* click, in a session whose widgets hold one of the start values.         *)
(***************************************************************************)
\* The payload the run block of the second session builds: its widgets
\* hold the default values; the timestamp is that of its click.
OtherPayload ==
    LET Built(r) == Payload(Defaults("app"), DefaultMoney.income, DefaultMoney.rent,
                            DefaultMoney.ratio, r, 0)
        Scored(ct) == Built(RunResult(ct.z, ct.p, DefaultMoney.ratio,
                                      DefaultMoney.income, DefaultMoney.rent))
        d == Defaults("app")
    IN  Scored(compute_table(build_inputs(d["Tahap Pendidikan"], d["Pekerjaan"],
                                          d["Jenis Penyewaan"], d["Jenis Rumah Sewa"],
                                          d["Jenis Kelengkapan Perabot"], d["Deposit"],
                                          d["Tempoh Menyewa"])))

InitApp ==
    /\ prog = "app"
    /\ age = 0
    /\ \E st \in Starts("app") :
           /\ sel = st.sel
           /\ income = st.money.income /\ rent = st.money.rent /\ ratio = st.money.ratio
           \* sheets_status(): libraries and secret present (with the
           \* default amounts and the first or the second option of every
           \* field), or not
           /\ sheet_ok \in (IF st.sel = Defaults("app") /\ st.money = DefaultMoney
                            THEN BOOLEAN
                            ELSE {st.sel = [f \in DOMAIN OPTIONS |-> OPTIONS[f][2]]})
           \* the session alone with its widgets untouched (value=False
           \* of the save toggle), or (with the default widget values and
           \* the sink configured) with a second session open, the save
           \* toggle switched on and its widget changes behind it: with
           \* two sessions the model follows the clicks and the requests
           /\ \E second \in (IF st.sel = Defaults("app") /\ st.money = DefaultMoney /\ sheet_ok
                              THEN BOOLEAN ELSE {FALSE}) :
                 /\ calls = [t \in (IF second THEN Sessions ELSE {1}) |->
                                NoCall(IF t = 1 THEN << >> ELSE OtherPayload)]
                 /\ save_to_sheet = second
                 /\ edits = (IF second THEN MaxEdits ELSE 0)
    /\ dark_mode = TRUE
    /\ result = None /\ inputs = None /\ df = None
    /\ ws = << >>
    /\ notice = ""
    /\ runs = 0
    /\ now = 0

InitOld ==
    /\ prog = "old"
    /\ age = 38
    /\ \E st \in Starts("old") :
           /\ sel = st.sel
           /\ income = st.money.income /\ rent = st.money.rent /\ ratio = st.money.ratio
    /\ save_to_sheet = FALSE
    /\ dark_mode = FALSE
    /\ \E inp \in {one_hot_inputs(age, Indices(sel))} :
       \E out \in {compute_all(inp, ratio, income, rent)} :
           /\ inputs = Some(inp)
           /\ df = Some(out.df)
           /\ result = Some([k \in (DOMAIN out) \ {"df"} |-> out[k]])
    /\ sheet_ok = FALSE
    /\ ws = << >>
    /\ notice = ""
    /\ edits = 0 /\ runs = 0
    /\ now = 0 /\ calls = << >>

Init ==
    InitApp \/ InitOld

(***************************************************************************)
(* Actions: one per user interaction, each followed by the script rerun.   *)
(***************************************************************************)
\* A selectbox is changed to another of its options.
Select(f, v) ==
    /\ ScriptIdle
    /\ edits < MaxEdits
    /\ v # sel[f]
    /\ sel' = [sel EXCEPT ![f] = v]
    /\ edits' = edits + 1
    /\ UNCHANGED << prog, age, income, rent, ratio, save_to_sheet, dark_mode, sheet_ok, calls >>
    /\ Script(sel', age, income, rent, ratio)

\* The age number_input (old snapshot) is changed.
SetAge(a) ==
    /\ prog = "old"
    /\ edits < MaxEdits
    /\ a # age
    /\ age' = a
    /\ edits' = edits + 1
    /\ UNCHANGED << prog, sel, income, rent, ratio, save_to_sheet, dark_mode, sheet_ok, calls >>
    /\ Script(sel, a, income, rent, ratio)

SetIncome(v) ==
    /\ ScriptIdle
    /\ edits < MaxEdits
    /\ v # income
    /\ income' = v
    /\ edits' = edits + 1
    /\ UNCHANGED << prog, sel, age, rent, ratio, save_to_sheet, dark_mode, sheet_ok, calls >>
    /\ Script(sel, age, v, rent, ratio)

SetRent(v) ==
    /\ ScriptIdle
    /\ edits < MaxEdits
    /\ v # rent
    /\ rent' = v
    /\ edits' = edits + 1
    /\ UNCHANGED << prog, sel, age, income, ratio, save_to_sheet, dark_mode, sheet_ok, calls >>
    /\ Script(sel, age, income, v, ratio)

SetRatio(v) ==
    /\ ScriptIdle
    /\ edits < MaxEdits
    /\ v # ratio
    /\ ratio' = v
    /\ edits' = edits + 1
    /\ UNCHANGED << prog, sel, age, income, rent, save_to_sheet, dark_mode, sheet_ok, calls >>
    /\ Script(sel, age, income, rent, v)

\* The "Save submission to spreadsheet" toggle (app.py).
ToggleSave ==
    /\ ScriptIdle
    /\ prog = "app"
    /\ edits < MaxEdits
    /\ save_to_sheet' = ~save_to_sheet
    /\ edits' = edits + 1
    /\ UNCHANGED << prog, sel, age, income, rent, ratio, dark_mode, sheet_ok, calls >>
    /\ AppScriptNoRun

\* The "Dark mode" toggle (app.py).
ToggleDark ==
    /\ ScriptIdle
    /\ prog = "app"
    /\ edits < MaxEdits
    /\ dark_mode' = ~dark_mode
    /\ edits' = edits + 1
    /\ UNCHANGED << prog, sel, age, income, rent, ratio, save_to_sheet, sheet_ok, calls >>
    /\ AppScriptNoRun

\* Variant of the run block that computes only when session_state holds no
\* result yet: a later click keeps the verdict of the first one.
Run_cached ==
    /\ prog = "app"
    /\ ScriptIdle
    /\ Clicks < MaxRuns
    /\ UNCHANGED << prog, sel, age, income, rent, ratio, save_to_sheet,
                    dark_mode, sheet_ok, edits >>
    /\ IF result # None
       THEN /\ result' = result
            /\ inputs' = Some(build_inputs(sel["Tahap Pendidikan"], sel["Pekerjaan"],
                                           sel["Jenis Penyewaan"], sel["Jenis Rumah Sewa"],
                                           sel["Jenis Kelengkapan Perabot"], sel["Deposit"],
                                           sel["Tempoh Menyewa"]))
            /\ df' = None
            /\ notice' = ""
            /\ runs' = runs + 1
            /\ UNCHANGED << ws, now, calls >>
       ELSE AppScriptRun

\* The "Run Check" button (app.py): the script runs with run = True.
Run ==
    /\ prog = "app"
    /\ ScriptIdle
    /\ Clicks < MaxRuns
    /\ UNCHANGED << prog, sel, age, income, rent, ratio, save_to_sheet,
                    dark_mode, sheet_ok, edits >>
    /\ AppScriptRun

\* "Run Check" is clicked in the second session, whose save toggle is on:
\* its run block builds the payload and enters append_to_sheet.
OtherRun ==
    /\ 2 \in DOMAIN calls
    /\ sheet_ok
    /\ calls[2].pc = "idle"
    /\ Clicks < MaxRuns
    /\ \E t \in Seconds(now) :
          /\ now' = t
          /\ calls' = Entered(2, [calls[2].widgets EXCEPT !["timestamp"] = Stamp(t)])
    /\ UNCHANGED << prog, sel, age, income, rent, ratio, save_to_sheet, dark_mode,
                    result, inputs, df, sheet_ok, ws, notice, edits, runs >>

\* The "Check Affordability" button (old snapshot): one more rerun.
Check ==
    /\ prog = "old"
    /\ UNCHANGED << prog, sel, age, income, rent, ratio, save_to_sheet,
                    dark_mode, sheet_ok, calls, edits >>
    /\ OldScript(sel, age, income, rent, ratio)

Next ==
    \/ \E f \in DOMAIN sel : \E i \in 1..Len(Options(prog)[f]) :
           Select(f, Options(prog)[f][i])
    \/ \E a \in Ages : SetAge(a)
    \/ \E v \in Incomes : SetIncome(v)
    \/ \E v \in Rents : SetRent(v)
    \/ \E v \in Ratios : SetRatio(v)
    \/ ToggleSave
    \/ ToggleDark
    \/ Run
    \/ Check
    \/ OtherRun
    \/ \E t \in DOMAIN calls : \E fail \in BOOLEAN : S_get_sheet(t, fail)
    \/ \E t \in DOMAIN calls : \E fail \in BOOLEAN : S_row_values(t, fail)
    \/ \E t \in DOMAIN calls : \E fail \in BOOLEAN : S_insert_row(t, fail)
    \/ \E t \in DOMAIN calls : \E fail \in BOOLEAN : S_append_row(t, fail)

Spec ==
    Init /\ [][Next]_vars

(***************************************************************************)
(* The functions called directly, on arguments a caller can pass whether   *)
(* or not the widgets can produce them: build_inputs, compute_table and    *)
(* logistic of src/app.py; one_hot_inputs, logistic and compute_all of the *)
(* old snapshot.  The functions keep no state between calls, so a         *)
(* behaviour is one call.  notice holds the name of the function called,   *)
(* sel and age the arguments of the encoder, inputs the vector built or    *)
(* passed, df and result what the call returned.                           *)
(***************************************************************************)
\* A label that is in no OPTIONS list.
BadLabel == "Unknown"

\* The selectboxes whose labels build_inputs receives.
EncodedFields ==
    {"Tahap Pendidikan", "Pekerjaan", "Jenis Penyewaan", "Jenis Rumah Sewa",
     "Jenis Kelengkapan Perabot", "Deposit", "Tempoh Menyewa"}

\* Arguments of build_inputs: the start profiles, and the default profile
\* with one label replaced by any option or by a label outside the list.
CallProfiles ==
    StartSels("app") \cup
    UNION {{[Defaults("app") EXCEPT ![f] = v] :
               v \in {OPTIONS[f][i] : i \in 1..Len(OPTIONS[f])} \cup {BadLabel}} :
           f \in EncodedFields}

\* Arguments of one_hot_inputs: ages inside and outside 15..100, and the
\* all-zero indices with one index replaced by any value from -1 to 9.
CallAges == {-1, 14, 15, 38, 100, 101}

CallIndices ==
    UNION {{[Indices(Defaults("old")) EXCEPT ![k] = i] : i \in -1..9} :
           k \in DOMAIN Indices(Defaults("old"))}

\* The vector v without the keys K.
Without(v, K) ==
    [k \in (DOMAIN v) \ K |-> v[k]] @@ << >>

\* Arguments of compute_table: the vectors build_inputs returns for the
\* start profiles; the same with keys missing, with a key that is not in
\* COEF, and with activations that are not 0 or 1, finite or not.
CallVectors ==
    LET B == {build_inputs(p["Tahap Pendidikan"], p["Pekerjaan"], p["Jenis Penyewaan"],
                           p["Jenis Rumah Sewa"], p["Jenis Kelengkapan Perabot"],
                           p["Deposit"], p["Tempoh Menyewa"]) : p \in StartSels("app")}
        pos == "Constant"
        neg == "Tahap Pendidikan=Undergraduate(1)"
    IN  B
        \cup {Without(v, K) : v \in B,
                              K \in {{pos}, {"deposit_2_1(1)"}, {pos, "deposit_2_1(1)"},
                                     Keys(COEF)}}
        \cup {Put(v, "Umur", 38) : v \in B}
        \cup {Put(Without(v, {pos}), "Umur", 38) : v \in B}
        \cup {Put(v, k, x) : v \in B, k \in {pos, neg}, x \in {2, INF, -INF, NAN}}
        \cup {Put(Put(v, pos, INF), neg, INF) : v \in B}

\* Arguments of logistic: scores from -15 to 15 in steps of a quarter, the
\* scores around logit(0.05), the two doubles next to 0 that the loop of
\* compute_all can leave (2^-47 and -2^-47), scores where exp underflows or
\* would overflow, and the non-finite ones.
CallScores ==
    {Round(250 * k, 0) : k \in -60..60}
    \cup {Round(m, 0) : m \in {-2946, -2945, -2944, -2943, 2944, 2945}}
    \cup {Dbl(0, 125 * 8192), Dbl(0, -125 * 8192)}
    \cup {Dbl(m, 0) : m \in {-100000000, -746000, -745000, 710000, 100000000}}
    \cup {Dbl(INF, 0), Dbl(-INF, 0), Dbl(NAN, 0)}

InitCalls ==
    /\ prog \in {"app", "old"}
    /\ sel = Defaults(prog)
    /\ age = (IF prog = "old" THEN 38 ELSE 0)
    /\ income = 6000 /\ rent = 2000 /\ ratio = 38
    /\ save_to_sheet = FALSE
    /\ dark_mode = TRUE
    /\ result = None /\ inputs = None /\ df = None
    /\ sheet_ok = FALSE
    /\ ws = << >>
    /\ notice = ""
    /\ edits = 0 /\ runs = 0
    /\ now = 0 /\ calls = << >>

\* inputs = build_inputs(edu_label=..., ..., tempoh_label=...)
Call_build_inputs(s) ==
    /\ notice = ""
    /\ prog = "app"
    /\ sel' = s
    /\ inputs' = Some(build_inputs(s["Tahap Pendidikan"], s["Pekerjaan"],
                                   s["Jenis Penyewaan"], s["Jenis Rumah Sewa"],
                                   s["Jenis Kelengkapan Perabot"], s["Deposit"],
                                   s["Tempoh Menyewa"]))
    /\ df' = None
    /\ result' = None
    /\ notice' = "build_inputs"
    /\ UNCHANGED << prog, age, income, rent, ratio, save_to_sheet, dark_mode,
                    sheet_ok, calls, ws, now, edits, runs >>

\* _df, z, p = compute_table(v)
Call_compute_table(v) ==
    /\ notice = ""
    /\ prog = "app"
    /\ \E ct \in {compute_table(v)} :
          /\ inputs' = Some(v)
          /\ df' = Some(ct.df)
          /\ result' = Some([z |-> ct.z, p |-> ct.p])
    /\ notice' = "compute_table"
    /\ UNCHANGED << prog, sel, age, income, rent, ratio, save_to_sheet, dark_mode,
                    sheet_ok, calls, ws, now, edits, runs >>

\* p = logistic(z)
Call_logistic(z) ==
    /\ notice = ""
    /\ result' = Some([z |-> z, p |-> logistic(z)])
    /\ inputs' = None
    /\ df' = None
    /\ notice' = "logistic"
    /\ UNCHANGED << prog, sel, age, income, rent, ratio, save_to_sheet, dark_mode,
                    sheet_ok, calls, ws, now, edits, runs >>

\* inp = one_hot_inputs(age=a, gender_idx=..., ..., smart_idx=...)
Call_one_hot_inputs(a, idx) ==
    /\ notice = ""
    /\ prog = "old"
    /\ age' = a
    /\ sel' = idx
    /\ inputs' = Some(one_hot_inputs(a, idx))
    /\ df' = None
    /\ result' = None
    /\ notice' = "one_hot_inputs"
    /\ UNCHANGED << prog, income, rent, ratio, save_to_sheet, dark_mode,
                    sheet_ok, calls, ws, now, edits, runs >>

\* compute_all() with the widgets at s, a and m
Call_compute_all(s, a, m) ==
    /\ notice = ""
    /\ prog = "old"
    /\ sel' = s
    /\ age' = a
    /\ income' = m.income /\ rent' = m.rent /\ ratio' = m.ratio
    /\ \E inp \in {one_hot_inputs(a, Indices(s))} :
       \E out \in {compute_all(inp, m.ratio, m.income, m.rent)} :
           /\ inputs' = Some(inp)
           /\ df' = Some(out.df)
           /\ result' = Some([k \in (DOMAIN out) \ {"df"} |-> out[k]])
    /\ notice' = "compute_all"
    /\ UNCHANGED << prog, save_to_sheet, dark_mode, sheet_ok, calls, ws, now, edits, runs >>

NextCalls ==
    \/ \E s \in CallProfiles : Call_build_inputs(s)
    \/ \E v \in CallVectors : Call_compute_table(v)
    \/ \E z \in CallScores : Call_logistic(z)
    \/ \E a \in CallAges : \E idx \in CallIndices : Call_one_hot_inputs(a, idx)
    \/ \E s \in StartSels("old") : \E a \in Ages : \E m \in StartMoney :
          Call_compute_all(s, a, m)

SpecCalls ==
    InitCalls /\ [][NextCalls]_vars

(***************************************************************************)
(* What the properties below read from a state.                            *)
(***************************************************************************)
\* A verdict is available: app.py has stored one, the old snapshot always
\* has the one of the current execution.
HasResult ==
    result # None

\* The income, rent and ratio the available verdict was computed from:
\* app.py stores them in the result, the old snapshot reads the widgets.
IncomeV == IF prog = "app" THEN result[1].income ELSE income
RentV   == IF prog = "app" THEN result[1].rent ELSE rent
RatioV  == IF prog = "app" THEN result[1].ratio ELSE ratio
ThresholdV == IF prog = "app" THEN result[1].threshold ELSE result[1].thr

\* The probability threshold in use.
PThresholdV == IF prog = "app" THEN P_THRESHOLD ELSE P_HALF

\* The coefficient table in use.
CoefV == IF prog = "app" THEN COEF ELSE COEF_old

\* The encoder in use, applied to selections s and age a.
Encode(pg, s, a) ==
    IF pg = "app"
    THEN build_inputs(s["Tahap Pendidikan"], s["Pekerjaan"], s["Jenis Penyewaan"],
                      s["Jenis Rumah Sewa"], s["Jenis Kelengkapan Perabot"],
                      s["Deposit"], s["Tempoh Menyewa"])
    ELSE one_hot_inputs(a, Indices(s))

\* The verdict part (z, p and the three booleans) of an evaluation of the
\* feature vector inp with the money values of the state.
VerdictOf(pg, inp) ==
    IF pg = "app"
    THEN LET ct == compute_table(inp)
             r  == RunResult(ct.z, ct.p, ratio, income, rent)
         IN  << r.z, r.p, r.ok_a, r.ok_b, r.ok_all >>
    ELSE LET r == compute_all(inp, ratio, income, rent)
         IN  << r.z, r.p, r.ok_a, r.ok_b, r.ok_all >>

StoredVerdict ==
    << result[1].z, result[1].p, result[1].ok_a, result[1].ok_b, result[1].ok_all >>

(***************************************************************************)
(* The categorical groups, as the coefficient tables name them.            *)
(***************************************************************************)
\* app.py: the option of a field that each dummy of COEF stands for.
DummyTable ==
    { << "Tahap Pendidikan", "Undergraduate", "Tahap Pendidikan=Undergraduate(1)" >>,
      << "Pekerjaan", "Pekerja Kerajaan", "Pekerjaan=Pekerja Kerajaan(1)" >>,
      << "Pekerjaan", "Pekerja Swasta", "Pekerjaan=Pekerja Swasta(1)" >>,
      << "Jenis Penyewaan", "Bilik", "Jenis Penyewaan=Bilik(1)" >>,
      << "Jenis Rumah Sewa", "Condominium", "Jenis rumah sewa=Kondominium(1)" >>,
      << "Jenis Rumah Sewa", "Pangsapuri", "Jenis rumah sewa=Pangsapuri(1)" >>,
      << "Jenis Rumah Sewa", "Rumah 1 unit", "Jenis rumah sewa=Rumah 1 unit(1)" >>,
      << "Jenis Rumah Sewa", "Rumah Teres", "Jenis rumah sewa=Rumah Teres(1)" >>,
      << "Jenis Kelengkapan Perabot", "Perabot separa",
         "Jenis kelengkapan perabot=Berperabot separa(1)" >>,
      << "Deposit", "2 + 1", "deposit_2_1(1)" >>,
      << "Tempoh Menyewa", "3 - 5 tahun",
         "Berapa lama anda telah menyewa rumah=3-5 tahun(1)" >>,
      << "Tempoh Menyewa", "Lebih 6 tahun",
         "Berapa lama anda telah menyewa rumah=6+ tahun(1)" >> }

\* Old snapshot: the variable of COEF that each field's dummies are named by.
GroupBase ==
    [f \in DOMAIN OPTIONS_old |->
       CASE f = "Gender" -> "Jantina ketua keluarga"
         [] f = "Nationality" -> "Warganegara"
         [] f = "Ethnicity" -> "Bangsa"
         [] f = "Religion" -> "Agama"
         [] f = "Marital Status" -> "Status Perkahwinan"
         [] f = "Level of Education" -> "Tahap Pendidikan"
         [] f = "Occupation" -> "Pekerjaan"
         [] f = "No household" -> "Bilangan isi rumah"
         [] f = "Number of dependent" -> "Bilangan tanggungan"
         [] f = "Type of rental Housing" -> "Jenis rumah sewa"
         [] f = "Furnished type" -> "Jenis kelengkapan perabot"
         [] f = "deposit" -> "Bayaran deposit"
         [] f = "Total year of rental" -> "Berapa lama anda telah menyewa rumah"
         [] f = "known SMART SEWA" ->
              "Adakah anda mengetahui terdapat skim mampu sewa di Malaysia? (contoh: SMART sewa)"]

\* The option labels of field f.
Labels(pg, f) ==
    {Options(pg)[f][i] : i \in 1..Len(Options(pg)[f])}

\* The dummies of the table that stand for option label of field f: one, or
\* none when the option is the baseline or has no coefficient entry.
DummyOfTable ==
    [pg \in {"app", "old"} |->
       [f \in DOMAIN Options(pg) |->
          [label \in Labels(pg, f) |->
             IF pg = "app"
             THEN {t[3] : t \in {u \in DummyTable : u[1] = f /\ u[2] = label}}
             ELSE {Key(GroupBase[f], IndexOf(OPTIONS_old[f], label))} \cap Keys(COEF_old)]
          @@ << >>]
       @@ << >>]
    @@ << >>

DummyOf(pg, f, label) ==
    DummyOfTable[pg][f][label]

\* The dummies owned by field f.
GroupTable ==
    [pg \in {"app", "old"} |->
       [f \in DOMAIN Options(pg) |-> UNION {DummyOf(pg, f, l) : l \in Labels(pg, f)}]
       @@ << >>]
    @@ << >>

Group(pg, f) ==
    GroupTable[pg][f]

\* Every dummy of the table in use.
Dummies(pg) ==
    UNION {Group(pg, f) : f \in DOMAIN Options(pg)}

\* The baseline option of field f: index 0 of its OPTIONS list.
Baseline(pg, f) ==
    Options(pg)[f][1]

\* The non-baseline options of field f that no dummy stands for.
UnmappedTable ==
    [pg \in {"app", "old"} |->
       [f \in DOMAIN Options(pg) |->
          {l \in Labels(pg, f) \ {Options(pg)[f][1]} : DummyOf(pg, f, l) = {}}]
       @@ << >>]
    @@ << >>

Unmapped(pg, f) ==
    UnmappedTable[pg][f]

(***************************************************************************)
(* Properties.                                                             *)
(***************************************************************************)
\* C1: whenever a verdict is available, the overall verdict is "Afford"
\* exactly when Condition A and Condition B both hold, for every
\* combination of the two.
C1_OverallIsConjunction ==
    HasResult =>
        /\ result[1].ok_all = TRUE  <=> (result[1].ok_a = TRUE /\ result[1].ok_b = TRUE)
        /\ (result[1].ok_a = FALSE \/ result[1].ok_b = FALSE) => result[1].ok_all = FALSE

\* Both conditions fail and the overall verdict is "Not Afford".
C1_Witness ==
    /\ HasResult
    /\ ~result[1].ok_a
    /\ ~result[1].ok_b
    /\ ~result[1].ok_all

\* C2: Condition B holds exactly when rent <= ratio x income, the comparison
\* being non-strict, so that a rent equal to ratio x income passes, and a
\* rent above ratio x income makes the overall verdict "Not Afford" whatever
\* the probability is.  ratio x income is the product of the numbers entered.
C2_CondBIsRentWithinThreshold ==
    HasResult =>
        /\ result[1].ok_b <=> (RentV * PCT <= RatioV * IncomeV)
        /\ RentV * PCT > RatioV * IncomeV => ~result[1].ok_all

\* C3: Condition A holds exactly when the probability is at least the
\* probability threshold in use, and it depends on nothing else: in the old
\* snapshot, which evaluates on every execution, an execution that changes
\* neither a selection nor the age leaves score, probability and
\* Condition A as they were.
C3_CondAIsProbabilityAtLeastThreshold ==
    /\ [](HasResult => (result[1].ok_a <=> result[1].p >= PThresholdV))
    /\ [][(prog = "old" /\ sel' = sel /\ age' = age) =>
            /\ result'[1].z = result[1].z
            /\ result'[1].p = result[1].p
            /\ result'[1].ok_a = result[1].ok_a]_vars

\* app.py: a probability between 0.05 and 0.5 satisfies Condition A, and
\* the overall verdict is "Afford".
C3_Witness ==
    /\ HasResult
    /\ prog = "app"
    /\ result[1].p >= P_THRESHOLD
    /\ result[1].p < P_HALF
    /\ result[1].ok_a
    /\ result[1].ok_all

\* C4: with an income of 0 the evaluation completes, the rent threshold is
\* 0 and Condition B holds exactly when the rent is 0; the rent share that
\* app.py derives is 0.
C4_ZeroIncome ==
    (HasResult /\ IncomeV = 0) =>
        /\ ThresholdV = Dbl(0, 0)
        /\ result[1].ok_b <=> (RentV = 0)
        /\ prog = "app" => result[1].rent_share = 0

\* Income 0 and rent 1 under a positive ratio: Condition B fails.
C4_Witness ==
    /\ HasResult
    /\ IncomeV = 0
    /\ RentV = 1
    /\ RatioV > 0
    /\ ~result[1].ok_b

\* C5: every evaluation reports the three booleans, and each condition is
\* evaluated whether or not the other one holds: a failed Condition A does
\* not keep Condition B from following the rent rule, and a failed
\* Condition B does not keep Condition A from following the probability rule.
C5_NoEarlyExit ==
    HasResult =>
        /\ {"z", "p", "ok_a", "ok_b", "ok_all"} \subseteq DOMAIN result[1]
        /\ {result[1].ok_a, result[1].ok_b, result[1].ok_all} \subseteq BOOLEAN
        /\ ~result[1].ok_a => (result[1].ok_b <=> fge(ThresholdV, Dbl(RentV * MILLI, 0)))
        /\ ~result[1].ok_b => (result[1].ok_a <=> result[1].p >= PThresholdV)

\* After an edit and a new execution, Condition A fails and Condition B is
\* still reported as holding.
C5_Witness ==
    /\ edits > 0
    /\ HasResult
    /\ ~result[1].ok_a
    /\ result[1].ok_b
    /\ RentV > 0

\* C6: the key set of every feature vector built equals the key set of the
\* coefficient table in use.
C6_FeatureKeysAreCoefKeys ==
    inputs # None => DOMAIN inputs[1] = Keys(CoefV)

\* app.py has built a vector for a profile with a condominium.
C6_Witness ==
    /\ inputs # None
    /\ prog = "app"
    /\ sel["Jenis Rumah Sewa"] = "Condominium"
    /\ inputs[1]["Jenis rumah sewa=Kondominium(1)"] = 1

\* The dummy features of the table in use: every key but the intercept and
\* the age.
DummyFeatures ==
    Keys(CoefV) \ {"Constant", "Umur"}

\* All dummies of field f are 0 in the vector v.
GroupAllZero(v, f) ==
    \A k \in Group(prog, f) : v[k] = 0

\* Exactly one dummy of field f is 1 in the vector v, the one that stands
\* for the selected option, and the others are 0.
GroupOneHot(v, f) ==
    /\ DummyOf(prog, f, sel[f]) # {}
    /\ \A k \in Group(prog, f) : v[k] = (IF k \in DummyOf(prog, f, sel[f]) THEN 1 ELSE 0)

\* C7 as stated: every dummy is 0 or 1 and, for each categorical field,
\* either the baseline is selected and all dummies of the group are 0, or a
\* non-baseline option is selected and exactly one dummy of the group is 1,
\* the one of the selected option.  The encoders do not satisfy this: a
\* non-baseline option without a coefficient entry leaves the group at 0.
C7_AsStated ==
    inputs # None =>
        /\ \A k \in DummyFeatures : inputs[1][k] \in {0, 1}
        /\ \A f \in DOMAIN sel :
              \/ sel[f] = Baseline(prog, f) /\ GroupAllZero(inputs[1], f)
              \/ sel[f] # Baseline(prog, f) /\ GroupOneHot(inputs[1], f)

\* C7: every dummy is 0 or 1 and, for each categorical field, either the
\* baseline is selected and all dummies of the group are 0, or a
\* non-baseline option with a coefficient entry is selected and exactly one
\* dummy of the group is 1, the one of the selected option, or a
\* non-baseline option without a coefficient entry is selected and all
\* dummies of the group are 0.
C7_DummiesFollowSelection ==
    inputs # None =>
        /\ \A k \in DummyFeatures : inputs[1][k] \in {0, 1}
        /\ \A f \in DOMAIN sel :
              \/ sel[f] = Baseline(prog, f) /\ GroupAllZero(inputs[1], f)
              \/ sel[f] # Baseline(prog, f) /\ GroupOneHot(inputs[1], f)
              \/ sel[f] \in Unmapped(prog, f) /\ GroupAllZero(inputs[1], f)

\* A vector built after an edit for a profile in which one field has a non-baseline
\* option with a dummy, set to 1, and another a non-baseline option with
\* none.
C7_Witness ==
    /\ edits > 0
    /\ inputs # None
    /\ \E f \in DOMAIN sel :
          /\ sel[f] # Baseline(prog, f)
          /\ \E k \in DummyOf(prog, f, sel[f]) : inputs[1][k] = 1
    /\ \E f \in DOMAIN sel :
          /\ Group(prog, f) # {}
          /\ sel[f] \in Unmapped(prog, f)

\* C8: for the all-baseline profile every dummy is 0, so the only nonzero
\* entries of the vector are Constant, which is 1, and, in the old
\* snapshot, Umur, which is the age.
C8_AllBaselineProfile ==
    (inputs # None /\ sel = Defaults(prog)) =>
        /\ \A k \in DummyFeatures : inputs[1][k] = 0
        /\ inputs[1]["Constant"] = 1
        /\ prog = "old" => inputs[1]["Umur"] = age
        /\ {k \in DOMAIN inputs[1] : inputs[1][k] # 0}
              = {"Constant"} \cup (IF prog = "old" THEN {"Umur"} ELSE {})

\* The old snapshot has encoded the all-baseline profile again after an
\* edit that left the selections alone.
C8_Witness ==
    /\ edits > 0
    /\ inputs # None
    /\ prog = "old"
    /\ sel = Defaults("old")
    /\ inputs[1]["Umur"] = age
    /\ age > 0

\* C9: changing exactly one categorical selection changes only entries of
\* that field's dummy group.  app.py: the vector built differs from the
\* vector of any profile that differs in one field only inside that field's
\* group.  Old snapshot: an execution that changes one selection, or none,
\* and not the age, changes the vector only inside that field's group.
C9_EncodingIndependence ==
    /\ [](prog = "app" /\ inputs # None =>
            \A f \in DOMAIN sel : \A i \in 1..Len(OPTIONS[f]) :
               LET other == Encode("app", [sel EXCEPT ![f] = OPTIONS[f][i]], age)
               IN  /\ DOMAIN other = DOMAIN inputs[1]
                   /\ \A k \in DOMAIN other \ Group("app", f) : other[k] = inputs[1][k])
    /\ [][(prog = "old" /\ age' = age) =>
            LET changed == {f \in DOMAIN sel : sel'[f] # sel[f]}
            IN  /\ changed = {} => inputs' = inputs
                /\ \A f \in changed :
                      changed = {f} =>
                         /\ DOMAIN inputs'[1] = DOMAIN inputs[1]
                         /\ \A k \in DOMAIN inputs[1] \ Group("old", f) :
                               inputs'[1][k] = inputs[1][k]]_vars

\* The old snapshot has re-encoded after one selection was changed to an
\* option that has a dummy.
C9_Witness ==
    /\ prog = "old"
    /\ edits = 1
    /\ inputs # None
    /\ sel \notin StartSels("old")
    /\ \E f \in DOMAIN sel :
          /\ sel[f] # Baseline("old", f)
          /\ \E k \in DummyOf("old", f, sel[f]) : inputs[1][k] = 1
          /\ [sel EXCEPT ![f] = Baseline("old", f)] \in StartSels("old")

\* C10: when the selected option of a field has no coefficient entry, all
\* dummies of that field's group are 0, and the vector, the score, the
\* probability and the three verdicts are those of the same profile with
\* the baseline selected for that field.
C10_UnmappedOptionIsBaseline ==
    inputs # None =>
        LET unmapped == {f \in DOMAIN sel : sel[f] \in Unmapped(prog, f)}
        IN  /\ \A f \in unmapped : GroupAllZero(inputs[1], f) /\ HasResult
            /\ \A base \in {Encode(prog, [sel EXCEPT ![f] = Baseline(prog, f)], age) :
                                f \in unmapped} :
                  /\ inputs[1] = base
                  /\ StoredVerdict = VerdictOf(prog, base)

\* After an edit, the old snapshot has evaluated a profile whose furnishing
\* level has no coefficient entry.
C10_Witness ==
    /\ edits > 0
    /\ inputs # None
    /\ HasResult
    /\ prog = "old"
    /\ sel["Furnished type"] \in Unmapped("old", "Furnished type")
    /\ GroupAllZero(inputs[1], "Furnished type")

(***************************************************************************)
(* Properties of the functions called directly (SpecCalls).                *)
(***************************************************************************)
\* Every activation of the vector v is finite.
FiniteVector(v) ==
    \A k \in DOMAIN v : IsFinite(v[k])

\* The sum, over the first n entries of the coefficient table C, of the
\* coefficient times the activation of v under that name, 0 when v has no
\* such name.
RECURSIVE Dot(_, _, _)
Dot(C, v, n) ==
    IF n = 0 THEN 0
    ELSE Dot(C, v, n - 1)
            + C[n][2] * (IF C[n][1] \in DOMAIN v THEN v[C[n][1]] ELSE 0)

\* The most that the roundings of the additions and products of a score
\* add up to, in the unit of lo: 2^-40.
RoundingBound == 125 * 1048576

\* C11: after a call of compute_table or compute_all on a vector of finite
\* activations, a score is returned, and it is the sum over every name of
\* the coefficient table of coefficient x activation, where a name missing
\* from the vector counts 0 and a key of the vector that is not in the
\* table counts nothing; the double returned is that sum to within the
\* rounding of the double arithmetic, less than 2^-40.
C11_ScoreIsWeightedSum ==
    (notice \in {"compute_table", "compute_all"} /\ FiniteVector(inputs[1])) =>
        /\ result # None
        /\ result[1].z.m = Dot(CoefV, inputs[1], Len(CoefV))
        /\ Abs(result[1].z.lo) < RoundingBound

\* compute_table was called on a vector without "Constant" and with a key
\* that is not in COEF, and returned a nonzero score.
C11_Witness ==
    /\ notice = "compute_table"
    /\ "Constant" \notin DOMAIN inputs[1]
    /\ (DOMAIN inputs[1]) \ Keys(COEF) # {}
    /\ result # None
    /\ result[1].z.m # 0
    /\ result[1].z.m = Dot(COEF, inputs[1], Len(COEF))

\* C12: for every finite score z, logistic(z) is at least 0 and at most 1,
\* and logistic(0) is exactly 0.5; this holds of every call of logistic and
\* of the probability every scoring call returns.
C12_LogisticRange ==
    (notice \in {"logistic", "compute_table", "compute_all"} /\ IsFinite(result[1].z.m)) =>
        /\ result[1].p >= 0
        /\ result[1].p <= PSCALE
        /\ result[1].z = Dbl(0, 0) =>
              /\ exp(fneg(result[1].z)) = [f |-> ONE \div 2, k |-> 1, lo |-> 0]
              /\ 2 * result[1].p = PSCALE

\* logistic was called on 0 and returned 0.5.
C12_Witness ==
    /\ notice = "logistic"
    /\ result[1].z = Dbl(0, 0)
    /\ 2 * result[1].p = PSCALE

(***************************************************************************)
(* Properties of the sessions (Spec), continued.                           *)
(***************************************************************************)
\* C13: a Run whose audit append failed, or found the sink unconfigured,
\* has stored a verdict all the same, and it is the verdict of the profile
\* and money values of that Run: z, p, ok_a, ok_b and ok_all are what the
\* evaluation gives with logging off; the failure shows only as a message.
C13_AppendFailureKeepsVerdict ==
    notice \in {"failed", "not configured"} =>
        /\ HasResult
        /\ inputs # None
        /\ StoredVerdict = VerdictOf(prog, Encode(prog, sel, age))
        /\ result[1].income = income /\ result[1].rent = rent /\ result[1].ratio = ratio

\* The first Run of a session failed to append and its verdict is stored.
C13_Witness ==
    /\ notice = "failed"
    /\ runs = 1
    /\ save_to_sheet /\ sheet_ok
    /\ HasResult
    /\ result[1].ok_all \in BOOLEAN

\* The rows the run block of this state may have handed to append_row, one
\* per second the clock has shown: one cell per column of SHEET_COLS, in
\* that order.
LoggedRows ==
    { RowOf(Payload(sel, income, rent, ratio, result[1], t)) : t \in 1..now }

\* The number of rows of the worksheet w that are not the header.
DataRows(w) ==
    Cardinality({i \in 1..Len(w) : w[i] # SHEET_COLS})

\* The calls that have returned without raising.
Succeeded ==
    calls[1].ok + (IF 2 \in DOMAIN calls THEN calls[2].ok ELSE 0)

\* C14: the session calls append_to_sheet at most once per Run click, and
\* only in a click with the save toggle on and the sink configured; with
\* the toggle off or the sink unconfigured the click leaves the worksheet
\* and the calls alone and reports no attempt.  A call makes one append_row
\* request, its last: every request adds at most one data row, the
\* worksheet holds one data row per call that returned, a call that reports
\* success has just added its row, and a call that reports a failure has
\* ended without adding one and makes no further request.
C14_AppendAtMostOnce ==
    /\ [](prog = "app" =>
             /\ calls[1].made <= runs
             /\ calls[1].ok <= calls[1].made
             /\ DataRows(ws) = Succeeded)
    /\ [][prog = "app" =>
             /\ DataRows(ws') - DataRows(ws) \in {0, 1}
             /\ calls'[1].made # calls[1].made =>
                   /\ calls'[1].made = calls[1].made + 1
                   /\ calls[1].pc = "idle"
                   /\ runs' = runs + 1 /\ save_to_sheet /\ sheet_ok
             /\ (runs' = runs + 1 /\ ~(save_to_sheet /\ sheet_ok)) =>
                   /\ calls' = calls /\ ws' = ws
                   /\ notice' \in {"", "not configured"}
             /\ (calls[1].pc # "idle" /\ calls'[1] # calls[1]) =>
                   /\ ws' # ws => calls[1].pc \in {"insert_row", "append_row"}
                   /\ DataRows(ws') # DataRows(ws) =>
                         (calls[1].pc = "append_row" /\ calls'[1].pc = "idle")
                   /\ notice' = "saved" =>
                         (calls[1].pc = "append_row" /\ DataRows(ws') = DataRows(ws) + 1)
                   /\ notice' = "failed" =>
                         (calls'[1].pc = "idle" /\ DataRows(ws') = DataRows(ws))
                   /\ calls'[1].pc = "idle" <=> notice' \in {"saved", "failed"}
      ]_vars

\* The first Run failed to append, the second succeeded, and the worksheet
\* holds the one row of the second.
C14_Witness ==
    /\ runs = 2
    /\ calls[1].made = 2 /\ calls[1].ok = 1
    /\ notice = "saved"
    /\ DataRows(ws) = 1
    /\ ws[Len(ws)] \in LoggedRows

(***************************************************************************)
(* Properties of the functions called directly (SpecCalls), continued.     *)
(***************************************************************************)
\* C15 as stated: a non-finite score is rejected, so no call returns a score
\* that is not finite, and logistic returns no probability for one.  The
\* functions hold no such check: compute_table returns z = inf with p = 1.0
\* and z = nan with p = nan, and logistic maps inf to 1.0, -inf to 0.0 and
\* nan to nan.
C15_NonFiniteScoreRejected ==
    (notice \in {"compute_table", "compute_all", "logistic"} /\ result # None) =>
        IsFinite(result[1].z.m)

\* The field whose OPTIONS list each index argument of one_hot_inputs
\* indexes.
IdxField ==
    [gender_idx      |-> "Gender",
     nationality_idx |-> "Nationality",
     ethnicity_idx   |-> "Ethnicity",
     religion_idx    |-> "Religion",
     marital_idx     |-> "Marital Status",
     edu_idx         |-> "Level of Education",
     job_idx         |-> "Occupation",
     household_idx   |-> "No household",
     dep_idx         |-> "Number of dependent",
     rental_idx      |-> "Type of rental Housing",
     furnished_idx   |-> "Furnished type",
     deposit_idx     |-> "deposit",
     years_idx       |-> "Total year of rental",
     smart_idx       |-> "known SMART SEWA"]

\* The encoder was called on a profile outside the declared domains: a
\* label that is not in the field's OPTIONS list, an index that is not an
\* index of the field's OPTIONS list, or an age outside 15..100.
InvalidProfile ==
    \/ /\ notice = "build_inputs"
       /\ \E f \in EncodedFields : sel[f] \notin Labels("app", f)
    \/ /\ notice = "one_hot_inputs"
       /\ \/ age \notin 15..100
          \/ \E k \in DOMAIN IdxField : sel[k] \notin 0..(Len(OPTIONS_old[IdxField[k]]) - 1)

\* C16 as stated: a profile outside the declared domains is rejected before
\* any scoring, so the encoder returns no vector for it.  build_inputs and
\* one_hot_inputs check nothing: they return the vector of the baseline
\* option for an unknown label or index, and write any age into Umur.
C16_InvalidProfileRejected ==
    InvalidProfile => inputs = None

(***************************************************************************)
(* Properties of the sessions (Spec), continued.                           *)
(***************************************************************************)
\* The breakdown table the page hands on with the verdict.  app.py keeps
\* the dictionary st.session_state["result"] and nothing else of the run
\* (the table compute_table returns is bound to _df and dropped); the old
\* snapshot displays df and offers it for download.
BreakdownV ==
    IF prog = "app"
    THEN IF "df" \in DOMAIN result[1] THEN Some(result[1].df) ELSE None
    ELSE df

\* The table t has one row per entry of the coefficient table C, in the
\* order of C, holding the name, the weight, the activation in inp and
\* their product.
IsBreakdown(t, C, inp) ==
    /\ Len(t) = Len(C)
    /\ \A i \in 1..Len(C) :
          /\ t[i].Variable = C[i][1]
          /\ t[i].COEF = C[i][2]
          /\ t[i].INPUT = Get(inp, C[i][1], 0)
          /\ t[i].PRODUCT = fmul(C[i][2], t[i].INPUT)

\* C17 as stated: every available verdict exposes z, p, the three booleans
\* and the breakdown table with one row per coefficient in table order.
\* The verdict app.py keeps has no table: the rows are computed and dropped.
C17_VerdictExposesBreakdown ==
    HasResult =>
        /\ {"z", "p", "ok_a", "ok_b", "ok_all"} \subseteq DOMAIN result[1]
        /\ BreakdownV # None
        /\ IsBreakdown(BreakdownV[1], CoefV, inputs[1])

\* total plus the products of rows i..n of the table t, row by row.
RECURSIVE ReSum(_, _, _, _)
ReSum(t, i, n, total) ==
    IF i > n THEN total
    ELSE LET next == fadd(total, t[i].PRODUCT)
         IN  IF next.m = NAN THEN next ELSE ReSum(t, i + 1, n, next)

\* The total of the product column of the first n rows of the table t,
\* added up in doubles row by row as a reader of the exported table would.
ColumnTotal(t, n) ==
    ReSum(t, 1, n, Dbl(0, 0))

\* C18: whenever a script run has built a breakdown table, the products of
\* its rows, added in double arithmetic row by row, give exactly the z
\* reported with it, bit for bit.
C18_ProductColumnSumsToZ ==
    (df # None /\ HasResult) =>
        ColumnTotal(df[1], Len(df[1])) = result[1].z

\* A table of the old snapshot whose products add up to 0 as decimals and
\* to -2^-47 as doubles, which is the z reported.
C18_Witness ==
    /\ prog = "old" /\ edits > 0
    /\ df # None /\ HasResult
    /\ Cardinality({i \in 1..Len(df[1]) : df[1][i].PRODUCT # Dbl(0, 0)}) >= 3
    /\ result[1].z = Dbl(0, -125 * 8192)
    /\ ColumnTotal(df[1], Len(df[1])) = result[1].z

\* The weight of the feature var in the coefficient table C, 0 when the
\* table has no such feature (app.py has no age feature).
CoefOf(C, var) ==
    LET I == {i \in 1..Len(C) : C[i][1] = var}
    IN  IF I = {} THEN 0 ELSE C[CHOOSE i \in I : TRUE][2]

\* A script run has just evaluated the profile of scenario 1: every
\* selectbox at its first option, age 38, income 6000, rent 2000, ratio 0.38.
Scenario1 ==
    /\ HasResult /\ inputs # None
    /\ sel = Defaults(prog)
    /\ prog = "old" => age = 38
    /\ IncomeV = 6000 /\ RentV = 2000 /\ RatioV = 38

\* C19: in scenario 1 the rent threshold is RM 2280.00, Condition B holds,
\* z is Constant plus the age weight times 38 (no dummy contributes),
\* Condition A is p >= 0.5 and the overall verdict equals Condition A.
C19_Scenario1 ==
    Scenario1 =>
        /\ ThresholdV = Dbl(2280 * MILLI, 0)
        /\ result[1].ok_b
        /\ result[1].z = fadd(fmul(CoefOf(CoefV, "Constant"), 1),
                               fmul(CoefOf(CoefV, "Umur"), 38))
        /\ result[1].z.m = CoefOf(CoefV, "Constant") + CoefOf(CoefV, "Umur") * 38
        /\ result[1].ok_a <=> (result[1].p >= P_HALF)
        /\ result[1].ok_all = result[1].ok_a

C19_Witness ==
    /\ Scenario1 /\ prog = "old"
    /\ result[1].z.m = 38728
    /\ result[1].thr = Dbl(2280000, 0)
    /\ result[1].ok_a /\ result[1].ok_b /\ result[1].ok_all

\* The profile, the income, the rent and the ratio are the same before and
\* after the step.
SameProfile ==
    /\ sel' = sel /\ age' = age
    /\ income' = income /\ rent' = rent /\ ratio' = ratio

\* C20: no hidden state.  Whatever was evaluated before, and whether or not
\* an earlier append failed, the feature vector and the verdict a script run
\* produces are those of the profile, income, rent and ratio it was given;
\* and two consecutive evaluations of the same values give the same feature
\* vector, z, p, Condition A, Condition B and overall verdict.
C20_NoHiddenState ==
    /\ [](inputs # None =>
             /\ HasResult
             /\ inputs[1] = Encode(prog, sel, age)
             /\ StoredVerdict = VerdictOf(prog, inputs[1])
             /\ IncomeV = income /\ RentV = rent /\ RatioV = ratio)
    /\ [][(inputs # None /\ inputs' # None /\ SameProfile) =>
             /\ inputs' = inputs
             /\ StoredVerdict' = StoredVerdict]_vars

C20_Witness ==
    /\ runs = 2 /\ notice = "failed" /\ DataRows(ws) = 0
    /\ calls[1].made = 2
    /\ inputs # None /\ HasResult
    /\ inputs[1] = Encode(prog, sel, age)
    /\ StoredVerdict = VerdictOf(prog, inputs[1])

(***************************************************************************)
(* Two evaluations served at the same time (SpecThreads).  Each is one     *)
(* call of the encoder followed by the scoring, executed statement by      *)
(* statement; the statements of the two calls interleave in any order.     *)
(* The variables hold one value per call: sel[t], age[t], income[t],       *)
(* rent[t] and ratio[t] are the arguments of call t, inputs[t] is its      *)
(* local dictionary inp, df[t] its local table, result[t] what it returns  *)
(* and notice[t] the number of statements it has executed.  COEF and       *)
(* OPTIONS are the module-level tables both calls read.                    *)
(***************************************************************************)
Threads == {1, 2}

\* The number of statements of the encoder: the creation of inp and one
\* block per encoded field.
EncoderSteps(pg) ==
    IF pg = "app" THEN 8 ELSE 15

\* The position of a call that has returned: the encoder, the table, the
\* score with the rules.
Done(pg) ==
    EncoderSteps(pg) + 2

\* Statement k (counted from 0) of build_inputs (app.py) or one_hot_inputs
\* (old snapshot), executed on the local dictionary inp with the arguments
\* s and a.
EncoderStep(pg, k, inp, s, a) ==
    IF pg = "app"
    THEN CASE k = 0 -> NewInputs
           [] k = 1 -> EncodeEdu(inp, s["Tahap Pendidikan"])
           [] k = 2 -> EncodeJob(inp, s["Pekerjaan"])
           [] k = 3 -> EncodePenyewaan(inp, s["Jenis Penyewaan"])
           [] k = 4 -> EncodeRumahSewa(inp, s["Jenis Rumah Sewa"])
           [] k = 5 -> EncodePerabot(inp, s["Jenis Kelengkapan Perabot"])
           [] k = 6 -> EncodeDeposit(inp, s["Deposit"])
           [] k = 7 -> EncodeTempoh(inp, s["Tempoh Menyewa"])
    ELSE CASE k = 0 -> NewInputs_old(a)
           [] k = 1 -> EncodeGender(inp, Indices(s).gender_idx)
           [] k = 2 -> EncodeNationality(inp, Indices(s).nationality_idx)
           [] k = 3 -> EncodeEthnicity(inp, Indices(s).ethnicity_idx)
           [] k = 4 -> EncodeReligion(inp, Indices(s).religion_idx)
           [] k = 5 -> EncodeMarital(inp, Indices(s).marital_idx)
           [] k = 6 -> EncodeEducation(inp, Indices(s).edu_idx)
           [] k = 7 -> EncodeOccupation(inp, Indices(s).job_idx)
           [] k = 8 -> EncodeHousehold(inp, Indices(s).household_idx)
           [] k = 9 -> EncodeDependents(inp, Indices(s).dep_idx)
           [] k = 10 -> EncodeRental(inp, Indices(s).rental_idx)
           [] k = 11 -> EncodeFurnished(inp, Indices(s).furnished_idx)
           [] k = 12 -> EncodeDepositIdx(inp, Indices(s).deposit_idx)
           [] k = 13 -> EncodeYears(inp, Indices(s).years_idx)
           [] k = 14 -> EncodeSmart(inp, Indices(s).smart_idx)

\* Variant of the binding of a local name: the name is a module-level
\* global, one object for every call.
Bind_global(store, t, v) ==
    [u \in DOMAIN store |-> Some(v)]

\* inp = ..., rows = ...: call t binds its own local name to the value v.
Bind(store, t, v) ==
    [store EXCEPT ![t] = Some(v)]

\* The score and the rules over the table rows of one call.
ScoreRows(pg, rows, rat, inc, rn) ==
    IF pg = "app"
    THEN LET z == SumColumn(rows, Len(rows))
         IN  RunResult(z, logistic(z), rat, inc, rn)
    ELSE LET z          == SumProducts(rows, Len(rows))
             p          == logistic(z)
             cond_a_ok  == CondA(p, P_HALF)
             threshold  == Threshold(rat, inc)
             cond_b_ok  == CondB(rn, threshold)
             overall_ok == Overall(cond_a_ok, cond_b_ok)
         IN  [z |-> z, p |-> p, thr |-> threshold,
              cond_a |-> Label(cond_a_ok), cond_b |-> Label(cond_b_ok),
              overall |-> Label(overall_ok),
              ok_a |-> cond_a_ok, ok_b |-> cond_b_ok, ok_all |-> overall_ok]

InitThreads ==
    /\ prog \in {"app", "old"}
    /\ sel \in [Threads -> StartSels(prog)]
    /\ age \in [Threads -> IF prog = "old" THEN {38} ELSE {0}]
    /\ \E m \in [Threads -> StartMoney] :
          /\ income = [t \in Threads |-> m[t].income]
          /\ rent = [t \in Threads |-> m[t].rent]
          /\ ratio = [t \in Threads |-> m[t].ratio]
    /\ inputs = [t \in Threads |-> None]
    /\ df = [t \in Threads |-> None]
    /\ result = [t \in Threads |-> None]
    /\ notice = [t \in Threads |-> 0]
    /\ save_to_sheet = FALSE /\ dark_mode = FALSE /\ sheet_ok = FALSE
    /\ ws = << >> /\ edits = 0 /\ runs = 0
    /\ now = 0 /\ calls = << >>

\* Call t executes the next statement of its encoder.
T_encode(t) ==
    /\ notice[t] < EncoderSteps(prog)
    /\ \E old \in {IF inputs[t] = None THEN << >> ELSE inputs[t][1]} :
       \E new \in {EncoderStep(prog, notice[t], old, sel[t], age[t])} :
          inputs' = Bind(inputs, t, new)
    /\ notice' = [notice EXCEPT ![t] = @ + 1]
    /\ UNCHANGED << prog, sel, age, income, rent, ratio, save_to_sheet, dark_mode,
                    result, df, sheet_ok, calls, ws, now, edits, runs >>

\* Call t builds its table from its inp.
T_table(t) ==
    /\ notice[t] = EncoderSteps(prog)
    /\ \E rows \in {Rows(CoefV, inputs[t][1])} :
          df' = [df EXCEPT ![t] = Some(rows)]
    /\ notice' = [notice EXCEPT ![t] = @ + 1]
    /\ UNCHANGED << prog, sel, age, income, rent, ratio, save_to_sheet, dark_mode,
                    result, inputs, sheet_ok, calls, ws, now, edits, runs >>

\* Call t sums its table, applies the rules and returns.
T_score(t) ==
    /\ notice[t] = EncoderSteps(prog) + 1
    /\ \E r \in {ScoreRows(prog, df[t][1], ratio[t], income[t], rent[t])} :
          result' = [result EXCEPT ![t] = Some(r)]
    /\ notice' = [notice EXCEPT ![t] = @ + 1]
    /\ UNCHANGED << prog, sel, age, income, rent, ratio, save_to_sheet, dark_mode,
                    inputs, df, sheet_ok, calls, ws, now, edits, runs >>

NextThreads ==
    \/ \E t \in Threads : T_encode(t)
    \/ \E t \in Threads : T_table(t)
    \/ \E t \in Threads : T_score(t)

SpecThreads ==
    InitThreads /\ [][NextThreads]_vars

\* What call t returns when nothing else runs: the whole encoder, then the
\* whole scoring, on the arguments of call t.
Alone(t) ==
    LET inp == Encode(prog, sel[t], age[t])
    IN  IF prog = "app"
        THEN LET ct == compute_table(inp)
                 r  == RunResult(ct.z, ct.p, ratio[t], income[t], rent[t])
             IN  << inp, r.z, r.p, r.ok_a, r.ok_b, r.ok_all >>
        ELSE LET r == compute_all(inp, ratio[t], income[t], rent[t])
             IN  << inp, r.z, r.p, r.ok_a, r.ok_b, r.ok_all >>

\* C21: however the statements of two evaluations interleave, each call
\* that has returned holds the feature vector and the verdict it produces
\* when run alone, and a statement of one call changes no local of the other.
C21_InterleavingKeepsVerdicts ==
    /\ [](\A t \in Threads :
             notice[t] = Done(prog) =>
                 /\ inputs[t] # None /\ result[t] # None
                 /\ << inputs[t][1], result[t][1].z, result[t][1].p, result[t][1].ok_a,
                       result[t][1].ok_b, result[t][1].ok_all >> = Alone(t))
    /\ [][\A t \in Threads :
             notice'[t] = notice[t] =>
                 /\ inputs'[t] = inputs[t]
                 /\ df'[t] = df[t]
                 /\ result'[t] = result[t]]_vars

C21_Witness ==
    /\ \A t \in Threads : notice[t] = Done(prog) /\ result[t] # None
    /\ sel[1] # sel[2]
    /\ inputs[1] # inputs[2]
    /\ result[1][1].z # result[2][1].z
    /\ result[1][1].ok_all # result[2][1].ok_all

(***************************************************************************)
(* Properties of the sessions (Spec), continued.                           *)
(***************************************************************************)
\* C22: in every feature vector a script run builds, whatever the profile,
\* Constant is 1; in the old snapshot the age is within 15..100 and Umur is
\* that age as entered; the vector of app.py has no age feature.
C22_ConstantAndAgeSetDirectly ==
    inputs # None =>
        /\ inputs[1]["Constant"] = 1
        /\ prog = "old" => (age \in 15..100 /\ inputs[1]["Umur"] = age)
        /\ prog = "app" => "Umur" \notin DOMAIN inputs[1]

C22_Witness ==
    /\ prog = "old" /\ inputs # None
    /\ age = 15 /\ sel # Defaults("old")
    /\ inputs[1]["Umur"] = 15 /\ inputs[1]["Constant"] = 1
    /\ \E k \in DummyFeatures : inputs[1][k] = 1

(***************************************************************************)
(* Properties of the functions called directly (SpecCalls), continued.     *)
(***************************************************************************)
\* Variant: the textbook form 1 / (1 + exp(-z)) for every z.
ExpArg_direct(z) ==
    fneg(z)

\* The argument logistic(z) passes to math.exp: -z in the branch z >= 0,
\* z in the other branch.
ExpArg(z) ==
    IF fge(z, Dbl(0, 0)) THEN fneg(z) ELSE z

\* C23: for every z that is a number, of either sign and of any magnitude
\* (infinite included), the argument logistic passes to exp is -|z|, never
\* positive, so that exp does not overflow and returns a value between 0
\* and 1, and the value returned is 1/(1+ez) for z >= 0 and ez/(1+ez) for
\* z < 0.
C23_ExpArgumentNeverPositive ==
    (notice = "logistic" /\ result[1].z.m # NAN) =>
        LET z  == result[1].z
            a  == ExpArg(z)
            ez == exp(a)
            E  == Fixed(ez)
        IN  /\ a.m <= 0 /\ (a.m = 0 => a.lo <= 0)
            /\ a.m = -Abs(z.m) /\ (z.m = 0 => a.lo = -Abs(z.lo))
            /\ ez.f \notin {INF, NAN, OverflowError}
            /\ ez.f = 0 \/ ez.k <= 0 \/ (ez.k = 1 /\ ez.f = ONE \div 2 /\ ez.lo <= 0)
            /\ result[1].p \in 0..PSCALE
            /\ (E > 0 /\ E < ONE) =>
                  result[1].p = (IF fge(z, Dbl(0, 0)) THEN Quot(ONE, ONE + E)
                                                      ELSE Quot(E, ONE + E))
            /\ E = 0 => result[1].p \in (IF fge(z, Dbl(0, 0)) THEN {PSCALE - 1, PSCALE}
                                                               ELSE {0})
            /\ E = ONE => result[1].p \in {(PSCALE \div 2) - 1, PSCALE \div 2}

\* logistic was called on -100000, where exp(-z) would overflow, and
\* returned 0.
C23_Witness ==
    /\ notice = "logistic"
    /\ result[1].z = Dbl(-100000 * MILLI, 0)
    /\ ExpArg(result[1].z) = Dbl(-100000 * MILLI, 0)
    /\ exp(fneg(result[1].z)).f = OverflowError
    /\ exp(ExpArg(result[1].z)).f = 0
    /\ result[1].p = 0

(***************************************************************************)
(* Properties of the sessions (Spec), continued.                           *)
(***************************************************************************)
\* C24: in app.py the stored result is None until the first Run click; a
\* step changes it only if it is a Run click, and a Run click stores the
\* verdict of the inputs current at the click; every other step (a change
\* of a selection, of a number or of a toggle) leaves it as it was.
C24_ResultChangesOnlyOnRun ==
    /\ []((prog = "app" /\ runs = 0) => result = None)
    /\ [][prog = "app" =>
             /\ runs' = runs => result' = result
             /\ runs' = runs + 1 =>
                   /\ result' # None
                   /\ SameProfile
                   /\ StoredVerdict' = VerdictOf(prog, Encode(prog, sel, age))
                   /\ (result[1].income)' = income' /\ (result[1].rent)' = rent'
                   /\ (result[1].ratio)' = ratio']_vars

\* A stored result that is not the verdict of the current inputs: the
\* inputs were changed after the click.
C24_Witness ==
    /\ prog = "app" /\ HasResult /\ runs = 1 /\ edits > 0
    /\ inputs = None
    /\ StoredVerdict # VerdictOf(prog, Encode(prog, sel, age))

(***************************************************************************)
(* Sessions of app.py over every selectable profile (SpecProfiles): the    *)
(* user has set the seven selectboxes that build_inputs reads to any       *)
(* combination of their options before clicking Run.                       *)
(***************************************************************************)
\* Every combination of the options of the fields build_inputs reads, the
\* other selectboxes at their defaults.
AllProfiles ==
    {[Defaults("app") EXCEPT !["Tahap Pendidikan"] = edu,
                             !["Pekerjaan"] = job,
                             !["Jenis Penyewaan"] = sewa,
                             !["Jenis Rumah Sewa"] = rumah,
                             !["Jenis Kelengkapan Perabot"] = perabot,
                             !["Deposit"] = deposit,
                             !["Tempoh Menyewa"] = tempoh] :
        edu \in Labels("app", "Tahap Pendidikan"),
        job \in Labels("app", "Pekerjaan"),
        sewa \in Labels("app", "Jenis Penyewaan"),
        rumah \in Labels("app", "Jenis Rumah Sewa"),
        perabot \in Labels("app", "Jenis Kelengkapan Perabot"),
        deposit \in Labels("app", "Deposit"),
        tempoh \in Labels("app", "Tempoh Menyewa")}

\* The money values of these sessions: the defaults, and a rent above 0.38
\* of the income.
ProfileMoney ==
    { [income |-> 6000, rent |-> 2000, ratio |-> 38],
      [income |-> 6000, rent |-> 3000, ratio |-> 38] }

InitProfiles ==
    /\ prog = "app"
    /\ sel \in AllProfiles
    /\ age = 0
    /\ \E m \in ProfileMoney :
           income = m.income /\ rent = m.rent /\ ratio = m.ratio
    /\ save_to_sheet = FALSE
    /\ dark_mode = TRUE
    /\ result = None /\ inputs = None /\ df = None
    /\ sheet_ok = FALSE
    /\ ws = << >>
    /\ notice = ""
    /\ edits = 0
    /\ runs = 0
    /\ now = 0 /\ calls = [t \in {1} |-> NoCall(<< >>)]

NextProfiles ==
    Run

SpecProfiles ==
    InitProfiles /\ [][NextProfiles]_vars

\* C25: in app.py, whatever combination of options is selected, z is at
\* least 0.310 - 0.537 - 1.007 - 0.370 - 0.584 = -2.188, whose probability
\* is above P_THRESHOLD; so p >= P_THRESHOLD, Condition A holds, and the
\* overall verdict of every stored result is Condition B.
C25_CondAAlwaysHoldsInApp ==
    HasResult =>
        /\ -2188 = CoefOf(COEF, "Constant")
                      + CoefOf(COEF, "Tahap Pendidikan=Undergraduate(1)")
                      + CoefOf(COEF, "Jenis rumah sewa=Kondominium(1)")
                      + CoefOf(COEF, "Jenis kelengkapan perabot=Berperabot separa(1)")
                      + CoefOf(COEF, "Berapa lama anda telah menyewa rumah=6+ tahun(1)")
        /\ fge(result[1].z, Round(-2188, 0))
        /\ logistic(Round(-2188, 0)) >= P_THRESHOLD
        /\ result[1].p >= P_THRESHOLD
        /\ result[1].ok_a
        /\ result[1].ok_all = result[1].ok_b

\* The profile with the lowest score, with a rent above the threshold:
\* Condition A holds at p of about 0.10 and the verdict is that of
\* Condition B.
C25_Witness ==
    /\ HasResult /\ runs = 1
    /\ result[1].z = Round(-2188, 0)
    /\ result[1].p >= P_THRESHOLD /\ result[1].p < P_HALF
    /\ result[1].ok_a /\ ~result[1].ok_b /\ ~result[1].ok_all

(***************************************************************************)
(* Properties of the sessions (Spec), continued.                           *)
(***************************************************************************)
\* The selectboxes of app.py that build_inputs is not given.
IgnoredFields ==
    (DOMAIN OPTIONS) \ EncodedFields

\* The worksheet column that logs each of them.
ColOf ==
    [f \in IgnoredFields |->
       CASE f = "Jantina" -> "jantina"
         [] f = "Warganegara" -> "warganegara"
         [] f = "Bangsa" -> "bangsa"
         [] f = "Agama" -> "agama"
         [] f = "Status Perkahwinan" -> "status_perkahwinan"
         [] f = "Bilangan Isi Rumah" -> "bil_isi_rumah"
         [] f = "Bilangan Tanggungan" -> "bil_tanggungan"
         [] f = "Skim" -> "skim"]

\* C26: in app.py the feature vector of a Run is that of the same profile
\* with any of the fields Jantina, Warganegara, Bangsa, Agama, Status
\* Perkahwinan, Bilangan Isi Rumah, Bilangan Tanggungan and Skim set to any
\* other option, and the verdict is the one computed from that vector and
\* the money values alone, whatever the two toggles are; the selections of
\* these fields appear in the logged row only, which the worksheet holds
\* once the call has reported success.
C26_VerdictIgnoresUnencodedFields ==
    (prog = "app" /\ inputs # None) =>
        /\ IgnoredFields = {"Jantina", "Warganegara", "Bangsa", "Agama", "Status Perkahwinan",
                            "Bilangan Isi Rumah", "Bilangan Tanggungan", "Skim"}
        /\ \A g \in IgnoredFields : \A v \in Labels("app", g) :
              inputs[1] = Encode("app", [sel EXCEPT ![g] = v], age)
        /\ StoredVerdict = VerdictOf("app", inputs[1])
        /\ notice = "saved" =>
              \E i \in 1..Len(ws) :
                 /\ ws[i] \in LoggedRows
                 /\ \A g \in IgnoredFields :
                       ws[i][IndexOf(SHEET_COLS, ColOf[g]) + 1] = sel[g]

\* A Run with the save toggle on, in a profile whose unencoded fields and
\* encoded fields are all away from their defaults, has logged its row.
C26_Witness ==
    /\ prog = "app" /\ inputs # None /\ HasResult
    /\ notice = "saved" /\ save_to_sheet
    /\ \A g \in DOMAIN OPTIONS : sel[g] # Defaults("app")[g]
    /\ result[1].z.m # CoefOf(COEF, "Constant")
    /\ ws[Len(ws)] \in LoggedRows
    /\ ws[Len(ws)][IndexOf(SHEET_COLS, "skim") + 1] = sel["Skim"]

(***************************************************************************)
(* Calls of append_to_sheet by two sessions at the same time (SpecSheet):  *)
(* each session calls the function with a payload, up to MaxCalls calls    *)
(* together, and the requests of the calls interleave.                     *)
(***************************************************************************)
\* The payloads passed to append_to_sheet in second t: the one the run block
\* builds for the default profile, and a dictionary with a timestamp only.
SheetPayloads(t) ==
    { [OtherPayload EXCEPT !["timestamp"] = Stamp(t)],
      [c \in {"timestamp"} |-> Stamp(t)] }

InitSheet ==
    /\ prog = "app"
    /\ sel = Defaults("app")
    /\ age = 0
    /\ income = 6000 /\ rent = 2000 /\ ratio = 38
    /\ save_to_sheet = TRUE
    /\ dark_mode = TRUE
    /\ result = None /\ inputs = None /\ df = None
    /\ sheet_ok = TRUE
    /\ ws = << >>
    /\ notice = ""
    /\ edits = 0 /\ runs = 0
    /\ now = 0
    /\ calls = [t \in Sessions |-> NoCall(<< >>)]

\* The run block of session t builds a payload and calls append_to_sheet.
S_call(t) ==
    /\ calls[t].pc = "idle"
    /\ calls[1].made + calls[2].made < MaxCalls
    /\ \E s \in Seconds(now) : \E p \in SheetPayloads(s) :
          /\ now' = s
          /\ calls' = [Entered(t, p) EXCEPT
                          ![t].overlapped = @ \/ \E u \in Sessions \ {t} : calls[u].pc # "idle"]
    /\ UNCHANGED << prog, sel, age, income, rent, ratio, save_to_sheet, dark_mode,
                    result, inputs, df, sheet_ok, ws, notice, edits, runs >>

NextSheet ==
    \/ \E t \in Sessions : S_call(t)
    \/ \E t \in Sessions : \E fail \in BOOLEAN : S_get_sheet(t, fail)
    \/ \E t \in Sessions : \E fail \in BOOLEAN : S_row_values(t, fail)
    \/ \E t \in Sessions : \E fail \in BOOLEAN : S_insert_row(t, fail)
    \/ \E t \in Sessions : \E fail \in BOOLEAN : S_append_row(t, fail)

SpecSheet ==
    InitSheet /\ [][NextSheet]_vars

\* The number of rows of the worksheet w that are the header.
HeaderRows(w) ==
    Cardinality({i \in 1..Len(w) : w[i] = SHEET_COLS})

\* No call is running.
AllReturned ==
    \A t \in Sessions : calls[t].pc = "idle"

\* C27 as stated: once n calls have succeeded and none is running, the
\* worksheet is the header followed by n data rows.  A failure of row_values
\* or insert_row inside ensure_header is swallowed, the row is appended all
\* the same, and the worksheet then starts with a data row; and two calls
\* that both read row 1 before either has inserted the header insert it
\* twice.
C27_AsStated ==
    (AllReturned /\ Succeeded > 0) =>
        /\ Len(ws) = Succeeded + 1
        /\ ws[1] = SHEET_COLS
        /\ \A i \in 2..Len(ws) : ws[i] # SHEET_COLS

\* C27, amended: the worksheet holds the header rows first and then one data
\* row per call that has returned without raising, each of one cell per
\* column; at most one header row when no call started while another was
\* running, and never more header rows than sessions; a request only adds a
\* row, the header in front by a call that read a row 1 other than the
\* header, or at the end the cells of the payload of the call in the order
\* of SHEET_COLS with '' for a missing key, and never removes or changes one.
C27_HeaderAtMostOnceRowsInOrder ==
    /\ [](/\ \A i \in 1..Len(ws) : Len(ws[i]) = Len(SHEET_COLS)
          /\ \A i \in 1..Len(ws) : \A j \in (i + 1)..Len(ws) :
                ws[j] = SHEET_COLS => ws[i] = SHEET_COLS
          /\ DataRows(ws) = Succeeded
          /\ (\A t \in Sessions : ~calls[t].overlapped) => HeaderRows(ws) <= 1
          /\ HeaderRows(ws) <= Cardinality(Sessions))
    /\ [][ws' # ws =>
             \E t \in Sessions :
                \/ /\ calls[t].pc = "insert_row"
                   /\ calls[t].first_row # SHEET_COLS
                   /\ ws' = << SHEET_COLS >> \o ws
                \/ /\ calls[t].pc = "append_row"
                   /\ Len(ws') = Len(ws) + 1
                   /\ SubSeq(ws', 1, Len(ws)) = ws
                   /\ \A i \in 1..Len(SHEET_COLS) :
                         ws'[Len(ws')][i] =
                            (IF SHEET_COLS[i] \in DOMAIN calls[t].payload
                             THEN calls[t].payload[SHEET_COLS[i]] ELSE "")]_vars

\* Two calls, one after the other, have both appended: the header, inserted
\* once, the row of the payload of the run block and the row of the payload
\* that has a timestamp only.
C27_Witness ==
    /\ AllReturned /\ Succeeded = 2
    /\ \A t \in Sessions : ~calls[t].overlapped
    /\ Len(ws) = 3
    /\ ws[1] = SHEET_COLS
    /\ ws[2][1] = "T1" /\ ws[2][2] = Defaults("app")["Jantina"]
    /\ ws[3][1] = "T1" /\ ws[3][2] = ""

(***************************************************************************)
(* src/app.py: the results panel, lines 1090-1151.  A quotient is a record *)
(* that tells whether the division raised ZeroDivisionError.               *)
(***************************************************************************)
\* Variant of the Condition B meter without the test of ratio_v.
Closeness_unguarded(share, ratio_v) ==
    IF ratio_v = 0
    THEN [raised |-> TRUE, v |-> 0]
    ELSE [raised |-> FALSE, v |-> clamp((share * PCT) \div ratio_v, 0, PSCALE)]

\* closeness = clamp(share / ratio_v, 0.0, 1.0) if ratio_v > 0 else 0.0;
\* share in PSCALE units, ratio_v in hundredths.
Closeness(share, ratio_v) ==
    IF ratio_v > 0
    THEN [raised |-> FALSE, v |-> clamp((share * PCT) \div ratio_v, 0, PSCALE)]
    ELSE [raised |-> FALSE, v |-> 0]

\* svg_gauge_html: v = clamp(value_0_1, 0.0, 1.0)
GaugeValue(value_0_1) ==
    clamp(value_0_1, 0, PSCALE)

\* C28: no stored result of app.py and no gauge of its panel comes from a
\* division by zero: rent_share is rent/income cut to [0, 1] when the
\* income is positive and 0 otherwise, the Condition B meter is
\* rent_share/ratio cut to [0, 1] when the ratio is positive and 0
\* otherwise, and both values drawn by svg_gauge_html lie in [0, 1].
C28_NoDivisionByZero ==
    (prog = "app" /\ HasResult) =>
        /\ result[1].rent_share \in 0..PSCALE
        /\ result[1].income = 0 => result[1].rent_share = 0
        /\ result[1].income > 0 =>
              \/ result[1].rent_share = (result[1].rent * PSCALE) \div result[1].income
              \/ /\ result[1].rent_share = PSCALE
                 /\ result[1].rent >= result[1].income
        /\ ~Closeness(result[1].rent_share, result[1].ratio).raised
        /\ result[1].ratio = 0 => Closeness(result[1].rent_share, result[1].ratio).v = 0
        /\ Closeness(result[1].rent_share, result[1].ratio).v \in 0..PSCALE
        /\ GaugeValue(Closeness(result[1].rent_share, result[1].ratio).v) \in 0..PSCALE
        /\ GaugeValue(result[1].p) \in 0..PSCALE

\* A result stored with ratio 0 and a positive rent: the meter shows 0.
C28_Witness ==
    /\ prog = "app" /\ HasResult
    /\ result[1].ratio = 0 /\ result[1].income > 0 /\ result[1].rent > 0
    /\ result[1].rent_share > 0
    /\ Closeness(result[1].rent_share, result[1].ratio) = [raised |-> FALSE, v |-> 0]

====
